---- MODULE Spec2Model ----
(***************************************************************************)
(* Model of the procedure runtime with lifecycle hooks                     *)
(* (packages/functions/src/functions/lifecycle.ts) and of the retry        *)
(* wrapper (packages/functions/src/utils/retry.ts).                        *)
(*                                                                         *)
(* An invocation of a procedure is an async function: it runs              *)
(* synchronously up to its next `await`, is suspended there, and is        *)
(* resumed when the awaited promise settles.  One action of the model is   *)
(* one such synchronous run; invocations interleave at their awaits only.  *)
(***************************************************************************)
EXTENDS Integers, Sequences, FiniteSets, TLC

VARIABLES
  state,        \* ProcedureState: the four hook arrays of the procedure
  calls,        \* calls[k]: the locals of the k-th invocation of execute
  lastHookInv,  \* the invocation that made the most recent hook call (0: none)
  interleaved,  \* a hook call of one invocation fell between two of another
  overlap,      \* an invocation was started while another one was suspended
  failedWhile,  \* failedWhile[k]: the invocations suspended when k failed
  finalConfig,  \* retry: the configuration merged over the defaults
  rt,           \* retry: the locals of the call of the wrapped function
  ro,           \* retryWithOutcome: the locals of the call of the wrapped function
  commands,     \* registry: the Map of names to procedures, in insertion order
  aliases,      \* registry: the Map of names to their Set of names, in insertion order
  registryLog,  \* the last calls made on the registry and the maps before the last
  stream,       \* CacheInvalidationStream: its private fields
  streamLog,    \* the events published since the history was last cleared or resized
  chain         \* outcome.ts: an Outcome, and the pipe calls that led to it

lifecycleVars == <<state, calls, lastHookInv, interleaved, overlap, failedWhile>>

retryVars == <<finalConfig, rt, ro>>

registryVars == <<commands, aliases, registryLog>>

streamVars == <<stream, streamLog>>

pipeVars == <<chain>>

vars == <<state, calls, lastHookInv, interleaved, overlap, failedWhile, finalConfig, rt, ro,
          commands, aliases, registryLog, stream, streamLog, chain>>

\* ---- bounds ------------------------------------------------------------
MaxHooks == 2
MaxCalls == 2
MaxAttempts == 4
JitterSteps == 2
MaxNames == 3
MaxProcedures == 2
MaxRegistryCalls == 5
MaxEvents == 4
MaxHistory == 3
MaxSubscriptions == 2
MaxDeliveries == 2
MaxPipes == 3

Invocations == DOMAIN calls

\* ---- values ------------------------------------------------------------
NoValue == "none"

\* The raw inputs a caller passes: one the schema accepts, one it rejects.
Inputs == {"rawOK", "rawBad"}

\* What a hook or a handler throws: an Error instance, or any other value.
Thrown ==
  { [isError |-> TRUE, message |-> "boom", value |-> NoValue],
    [isError |-> FALSE, message |-> NoValue, value |-> "str"] }

\* err instanceof Error ? err.message : String(err)
ErrMessage(err) == IF err.isError THEN err.message ELSE err.value

success(v) == [tag |-> "Success", value |-> v, error |-> NoValue]

failure(e) == [tag |-> "Failure", value |-> NoValue, error |-> e]

isSuccess(res) == res.tag = "Success"

isFailure(res) == res.tag = "Failure"

exception(n, m) == [name |-> n, message |-> m]

\* parseArgs(schema, input): Success with the schema's transformed value, or
\* a Failure named ValidatedArgsError; it never throws.
parseArgs(input) ==
  IF input = "rawOK"
    THEN success("parsed")
    ELSE failure(exception("ValidatedArgsError", "issues"))

\* ---- the procedure: query(options) -------------------------------------
\* The arrays hold the registered functions, named by their registration
\* ordinal; push appends.
EmptyState ==
  [beforeInvokeHooks |-> <<>>, afterInvokeHooks |-> <<>>,
   onSuccessHooks |-> <<>>, onErrorHooks |-> <<>>]

\* The array a loop of execute iterates, by the place of the loop.
HooksOf(stage) ==
  CASE stage = "before" -> state.beforeInvokeHooks
    [] stage = "after" -> state.afterInvokeHooks
    [] stage = "success" -> state.onSuccessHooks
    [] OTHER -> state.onErrorHooks

\* The places of execute where an invocation awaits a hook.
HookStages == {"valErr", "before", "beforeErr", "after", "handlerErr", "success", "error"}

\* The three loops, and the one of the validation branch, over onErrorHooks.
ErrorStages == {"valErr", "beforeErr", "handlerErr", "error"}

\* The hooks that only observe: a throw of theirs is caught and logged.
LateStages == HookStages \ {"before"}

\* The locals of an invocation that has not been made yet.
IdleCall ==
  [pc |-> "idle", stage |-> NoValue, i |-> 0, context |-> 0,
   input |-> NoValue, data |-> NoValue, error |-> NoValue, result |-> NoValue,
   settled |-> "pending", returned |-> NoValue, trace |-> <<>>,
   firstCaught |-> <<>>, reg0 |-> NoValue]

\* An entry of the record of what an invocation did: the call of a hook or of
\* the handler with its arguments, or the end of the awaited call with what
\* it returned or threw.
Ev(type, stage, slot, ctx, args, payload) ==
  [type |-> type, stage |-> stage, slot |-> slot, ctx |-> ctx, args |-> args,
   payload |-> payload]

\* The promise of the async function resolves with the returned value.
Return(r, res) ==
  [r EXCEPT !.pc = "done", !.stage = NoValue, !.i = 0,
            !.settled = "resolved", !.returned = res]

\* The promise of the async function rejects: an exception left execute.
Reject(r, err) ==
  [r EXCEPT !.pc = "done", !.stage = NoValue, !.i = 0,
            !.settled = "rejected", !.returned = err]

\* The array iterated from its end.
AwaitHookReversed(r, stage, i, args, payload) ==
  [r EXCEPT !.pc = "await", !.stage = stage, !.i = i,
            !.trace = Append(@, Ev("call", stage,
                                   HooksOf(stage)[Len(HooksOf(stage)) - i + 1],
                                   r.context, args, payload))]

\* `await hook(context, args, payload)`: the hook is called and the invocation
\* is suspended until the hook's promise settles.
AwaitHook(r, stage, i, args, payload) ==
  [r EXCEPT !.pc = "await", !.stage = stage, !.i = i,
            !.trace = Append(@, Ev("call", stage, HooksOf(stage)[i], r.context, args, payload))]

\* The awaited call has settled with outcome: the invocation is resumed.
Settled(r, outcome) ==
  [r EXCEPT !.trace = Append(@, Ev("end", r.stage, r.i, r.context, NoValue, outcome))]

Returned(v) == [how |-> "returned", what |-> v]

Threw(err) == [how |-> "threw", what |-> err]

\* The end of an observing hook: what it returned or threw is dropped.
Ended == [how |-> "ended", what |-> NoValue]

\* The onError hooks of the validation branch given the parsed value.
LoopValErrParsed(r, i) ==
  IF i <= Len(state.onErrorHooks)
    THEN AwaitHook(r, "valErr", i, r.data, r.error)
    ELSE Return(r, failure(r.error))

\* lifecycle.ts 121-129: onError hooks of the validation branch, from hook i.
LoopValErr(r, i) ==
  IF i <= Len(state.onErrorHooks)
    THEN AwaitHook(r, "valErr", i, r.input, r.error)
    ELSE Return(r, failure(r.error))

\* lifecycle.ts 145-153: onError hooks after a beforeInvoke hook threw.
LoopBeforeErr(r, i) ==
  IF i <= Len(state.onErrorHooks)
    THEN AwaitHook(r, "beforeErr", i, r.data, r.error)
    ELSE Return(r, failure(r.error))

\* lifecycle.ts 180-187: onError hooks when the result is a HandlerError.
LoopHandlerErr(r, i) ==
  IF i <= Len(state.onErrorHooks)
    THEN AwaitHook(r, "handlerErr", i, r.data, r.result.error)
    ELSE Return(r, r.result)

\* lifecycle.ts 193-199 and 211
LoopSuccess(r, i) ==
  IF i <= Len(state.onSuccessHooks)
    THEN AwaitHook(r, "success", i, r.data, r.result.value)
    ELSE Return(r, r.result)

\* lifecycle.ts 202-208 and 211
LoopError(r, i) ==
  IF i <= Len(state.onErrorHooks)
    THEN AwaitHook(r, "error", i, r.data, r.result.error)
    ELSE Return(r, r.result)

\* The dispatch without its test of the Result.
DispatchNoTest(r) ==
  IF isFailure(r.result) /\ r.result.error.name = "HandlerError"
    THEN LoopHandlerErr(r, 1)
    ELSE LoopSuccess(r, 1)

\* lifecycle.ts 178-209: the branch taken once the afterInvoke hooks are done.
Dispatch(r) ==
  IF isFailure(r.result) /\ r.result.error.name = "HandlerError"
    THEN LoopHandlerErr(r, 1)
    ELSE IF isSuccess(r.result)
      THEN LoopSuccess(r, 1)
      ELSE LoopError(r, 1)

\* The afterInvoke hooks run after a Success only.
LoopAfterOnSuccess(r, i) ==
  IF isSuccess(r.result) /\ i <= Len(state.afterInvokeHooks)
    THEN AwaitHook(r, "after", i, r.data, r.result)
    ELSE Dispatch(r)

\* lifecycle.ts 170-176
LoopAfter(r, i) ==
  IF i <= Len(state.afterInvokeHooks)
    THEN AwaitHook(r, "after", i, r.data, r.result)
    ELSE Dispatch(r)

\* lifecycle.ts 160: result = await options.handler(context, data)
CallHandler(r) ==
  [r EXCEPT !.pc = "await", !.stage = "handler", !.i = 0,
            !.trace = Append(@, Ev("call", "handler", 0, r.context, r.data, NoValue))]

\* The loop over the hooks that were registered when the invocation started.
LoopBeforeSnapshot(r, i) ==
  IF i <= r.reg0.before
    THEN AwaitHook(r, "before", i, r.data, NoValue)
    ELSE CallHandler(r)

\* The beforeInvoke hooks run in the first call of the procedure only.
LoopBeforeFirstCall(r, i) ==
  IF r.context = 1 /\ i <= Len(state.beforeInvokeHooks)
    THEN AwaitHook(r, "before", i, r.data, NoValue)
    ELSE CallHandler(r)

\* A failure of one invocation is kept with the procedure and is returned by
\* the invocations that come to their beforeInvoke hooks after it.
LoopBeforeShared(r, i) ==
  LET failed == {j \in DOMAIN calls : calls[j].pc = "done" /\ isFailure(calls[j].returned)}
  IN IF failed # {}
       THEN Return(r, calls[CHOOSE j \in failed : TRUE].returned)
       ELSE IF i <= Len(state.beforeInvokeHooks)
         THEN AwaitHook(r, "before", i, r.data, NoValue)
         ELSE CallHandler(r)

\* lifecycle.ts 135-137
LoopBefore(r, i) ==
  IF i <= Len(state.beforeInvokeHooks)
    THEN AwaitHook(r, "before", i, r.data, NoValue)
    ELSE CallHandler(r)

\* The throw of the handler leaves execute.
CatchHandlerRethrow(r, err) == Reject(r, err)

\* lifecycle.ts 161-167: the catch of the handler's throw, and what follows.
CatchHandler(r, err) ==
  LoopAfter([r EXCEPT !.result = failure(exception("HandlerError", ErrMessage(err)))], 1)

\* The next iteration of the loop the invocation is in.
NextIteration(r) ==
  CASE r.stage = "valErr" -> LoopValErr(r, r.i + 1)
    [] r.stage = "beforeErr" -> LoopBeforeErr(r, r.i + 1)
    [] r.stage = "before" -> LoopBefore(r, r.i + 1)
    [] r.stage = "after" -> LoopAfter(r, r.i + 1)
    [] r.stage = "handlerErr" -> LoopHandlerErr(r, r.i + 1)
    [] r.stage = "success" -> LoopSuccess(r, r.i + 1)
    [] OTHER -> LoopError(r, r.i + 1)

\* The throw of a beforeInvoke hook is logged and the loop goes on.
CatchBeforeContinue(r, err) == NextIteration(r)

\* lifecycle.ts 138-153: the catch of a beforeInvoke hook's throw.
CatchBefore(r, err) ==
  LoopBeforeErr([r EXCEPT !.error = exception("BeforeInvokeError", ErrMessage(err))], 1)

\* The throw of an observing hook leaves execute.
CatchLateRethrow(r) ==
  Reject([r EXCEPT !.firstCaught = IF @ = <<>> THEN <<r.stage, r.i>> ELSE @], "hook error")

\* lifecycle.ts 124-126, 148-150, 173-175, 183-185, 196-198, 205-207: the
\* catch of an observing hook's throw logs it and the loop goes on.
CatchLate(r) ==
  NextIteration([r EXCEPT !.firstCaught = IF @ = <<>> THEN <<r.stage, r.i>> ELSE @])

\* lifecycle.ts 107-132: execute(context, input) up to its first await.
Enter(k, input) ==
  LET parsed == parseArgs(input)
      r == [IdleCall EXCEPT !.context = k, !.input = input,
              !.reg0 = [before |-> Len(state.beforeInvokeHooks),
                        after |-> Len(state.afterInvokeHooks),
                        success |-> Len(state.onSuccessHooks),
                        error |-> Len(state.onErrorHooks)]]
  IN IF isFailure(parsed)
       THEN LoopValErr([r EXCEPT !.error =
                          exception("ValidationError", parsed.error.message)], 1)
       ELSE LoopBefore([r EXCEPT !.data = parsed.value], 1)

\* The hook calls an invocation has made so far.
HookCalls(r) == SelectSeq(r.trace, LAMBDA e : e.type = "call" /\ e.stage # "handler")

\* The awaited calls of invocation r that ended in a failure of the
\* invocation: a throw of a beforeInvoke hook or of the handler, or a Failure
\* the handler returned.
Failures(r) ==
  SelectSeq(r.trace, LAMBDA e : /\ e.type = "end"
                                /\ e.stage \in {"before", "handler"}
                                /\ \/ e.payload.how = "threw"
                                   \/ e.payload.how = "returned" /\ e.stage = "handler"
                                        /\ isFailure(e.payload.what))

\* The bookkeeping of a synchronous run of invocation k that ends as r2.
Track(k, r1, r2) ==
  LET called == Len(HookCalls(r2)) > Len(HookCalls(r1))
      failed == \/ r1.pc = "idle" /\ isFailure(parseArgs(r2.input))
                \/ Len(Failures(r2)) > Len(Failures(r1))
  IN /\ failedWhile' = IF failed
                         THEN [failedWhile EXCEPT ![k] =
                                 {j \in Invocations \ {k} : calls[j].pc = "await"}]
                         ELSE failedWhile
     /\ lastHookInv' = IF called THEN k ELSE lastHookInv
     /\ interleaved' = (interleaved \/
                         (called /\ lastHookInv \notin {0, k} /\ Len(HookCalls(r1)) > 0))

\* ---- actions -----------------------------------------------------------
\* procedure(context, input): the k-th call of the procedure.
Invoke(k, input) ==
  /\ calls[k].pc = "idle"
  /\ \A j \in Invocations : j < k => calls[j].pc # "idle"
  /\ calls' = [calls EXCEPT ![k] = Enter(k, input)]
  /\ overlap' = (overlap \/ \E j \in Invocations : calls[j].pc = "await")
  /\ Track(k, calls[k], calls'[k])
  /\ UNCHANGED <<state, retryVars, pipeVars, registryVars, streamVars>>

\* The awaited hook returned (or its promise resolved).
HookReturns(k) ==
  /\ calls[k].pc = "await"
  /\ calls[k].stage \in HookStages
  /\ calls' = [calls EXCEPT ![k] = NextIteration(Settled(calls[k],
                   IF calls[k].stage = "before" THEN Returned(NoValue) ELSE Ended))]
  /\ Track(k, calls[k], calls'[k])
  /\ UNCHANGED <<state, overlap, retryVars, pipeVars, registryVars, streamVars>>

\* The awaited hook threw (or its promise rejected).
HookThrows(k, err) ==
  /\ calls[k].pc = "await"
  /\ calls[k].stage \in HookStages
  /\ calls' = [calls EXCEPT ![k] =
                 IF calls[k].stage = "before"
                   THEN CatchBefore(Settled(calls[k], Threw(err)), err)
                   ELSE CatchLate(Settled(calls[k], Ended))]
  /\ Track(k, calls[k], calls'[k])
  /\ UNCHANGED <<state, overlap, retryVars, pipeVars, registryVars, streamVars>>

\* The results a handler returns.
HandlerResults ==
  { success("out"),
    failure(exception("TestError", "test")),
    failure(exception("HandlerError", "own")) }

\* The awaited handler returned res.
HandlerReturns(k, res) ==
  /\ calls[k].pc = "await"
  /\ calls[k].stage = "handler"
  /\ calls' = [calls EXCEPT ![k] = LoopAfter([Settled(calls[k], Returned(res)) EXCEPT !.result = res], 1)]
  /\ Track(k, calls[k], calls'[k])
  /\ UNCHANGED <<state, overlap, retryVars, pipeVars, registryVars, streamVars>>

\* The awaited handler threw err.
HandlerThrows(k, err) ==
  /\ calls[k].pc = "await"
  /\ calls[k].stage = "handler"
  /\ calls' = [calls EXCEPT ![k] = CatchHandler(Settled(calls[k], Threw(err)), err)]
  /\ Track(k, calls[k], calls'[k])
  /\ UNCHANGED <<state, overlap, retryVars, pipeVars, registryVars, streamVars>>

\* lifecycle.ts 216-221
beforeInvoke ==
  /\ Len(state.beforeInvokeHooks) < MaxHooks
  /\ state' = [state EXCEPT !.beforeInvokeHooks = Append(@, Len(@) + 1)]
  /\ UNCHANGED <<calls, lastHookInv, interleaved, overlap, failedWhile, retryVars, pipeVars, registryVars, streamVars>>

\* lifecycle.ts 222-231
afterInvoke ==
  /\ Len(state.afterInvokeHooks) < MaxHooks
  /\ state' = [state EXCEPT !.afterInvokeHooks = Append(@, Len(@) + 1)]
  /\ UNCHANGED <<calls, lastHookInv, interleaved, overlap, failedWhile, retryVars, pipeVars, registryVars, streamVars>>

\* lifecycle.ts 232-237
onSuccess ==
  /\ Len(state.onSuccessHooks) < MaxHooks
  /\ state' = [state EXCEPT !.onSuccessHooks = Append(@, Len(@) + 1)]
  /\ UNCHANGED <<calls, lastHookInv, interleaved, overlap, failedWhile, retryVars, pipeVars, registryVars, streamVars>>

\* lifecycle.ts 238-243
onError ==
  /\ Len(state.onErrorHooks) < MaxHooks
  /\ state' = [state EXCEPT !.onErrorHooks = Append(@, Len(@) + 1)]
  /\ UNCHANGED <<calls, lastHookInv, interleaved, overlap, failedWhile, retryVars, pipeVars, registryVars, streamVars>>

\* ---- retry(fn, config) -------------------------------------------------
\* retry.ts 54-61
defaultRetryConfig ==
  [maxAttempts |-> 3, initialDelay |-> 1000, backoffMultiplier |-> 2,
   maxDelay |-> 30000, jitter |-> TRUE, isRetryable |-> "allErrors",
   onRetry |-> NoValue]

\* The values a caller passes for the keys of config.
Provided ==
  [maxAttempts |-> 0..MaxAttempts, initialDelay |-> {100},
   backoffMultiplier |-> {3}, maxDelay |-> {150}, jitter |-> {FALSE},
   isRetryable |-> {"never", "timeoutErrors"}, onRetry |-> {"returns", "throws"}]

\* retry.ts 88: { ...defaultRetryConfig, ...config }: each key has the value
\* the caller passed, or the default when the caller left it out.
FinalConfigs ==
  [maxAttempts : {defaultRetryConfig.maxAttempts} \cup Provided.maxAttempts,
   initialDelay : {defaultRetryConfig.initialDelay} \cup Provided.initialDelay,
   backoffMultiplier : {defaultRetryConfig.backoffMultiplier} \cup Provided.backoffMultiplier,
   maxDelay : {defaultRetryConfig.maxDelay} \cup Provided.maxDelay,
   jitter : {defaultRetryConfig.jitter} \cup Provided.jitter,
   isRetryable : {defaultRetryConfig.isRetryable} \cup Provided.isRetryable,
   onRetry : {defaultRetryConfig.onRetry} \cup Provided.onRetry]

\* What fn throws: Error instances, and an Exception object that is none.
FnThrown ==
  { [isError |-> TRUE, name |-> "Error", message |-> "fail"],
    [isError |-> TRUE, name |-> "TimeoutError", message |-> "late"],
    [isError |-> FALSE, name |-> "TimeoutError", message |-> "timed out"] }

\* The strings of the model that contain "timeout" or "timed out" when lowered.
TimeoutWords == {"TimeoutError", "timed out"}

\* retry.ts 286-294: RetryPredicates.timeoutErrors, 299: allErrors, 304: never
Retryable(pred, error) ==
  CASE pred = "never" -> FALSE
    [] pred = "timeoutErrors" -> error.name \in TimeoutWords \/ error.message \in TimeoutWords
    [] OTHER -> TRUE

\* retry.ts 108: error instanceof Error ? error : new Error(String(error))
Normalize(error) ==
  IF error.isError
    THEN error
    ELSE [isError |-> TRUE, name |-> "Error", message |-> "[object Object]"]

RECURSIVE Pow(_, _)
\* Math.pow(b, n) for a natural n
Pow(b, n) == IF n = 0 THEN 1 ELSE b * Pow(b, n - 1)

Min(a, b) == IF a <= b THEN a ELSE b

\* The delay is not capped by maxDelay.
cappedDelayUncapped(attempt) ==
  finalConfig.initialDelay * Pow(finalConfig.backoffMultiplier, attempt - 1)

\* The exponent of the backoff is the number of the attempt, not one less.
cappedDelayOffByOne(attempt) ==
  Min(finalConfig.initialDelay * Pow(finalConfig.backoffMultiplier, attempt),
      finalConfig.maxDelay)

\* retry.ts 119-120
cappedDelay(attempt) ==
  Min(finalConfig.initialDelay * Pow(finalConfig.backoffMultiplier, attempt - 1),
      finalConfig.maxDelay)

\* retry.ts 123-125: Math.random() * cappedDelay is some value of [0, cappedDelay).
Delays(attempt) ==
  IF finalConfig.jitter
    THEN { (cappedDelay(attempt) * n) \div JitterSteps : n \in 0..(JitterSteps - 1) }
    ELSE { cappedDelay(attempt) }

\* let lastError: undefined until an attempt has failed
Undefined == [tag |-> "undefined", value |-> NoValue, causes |-> <<>>, errors |-> <<>>]

\* What the attempt of fn with the given number resolves with.
ResultOf(attempt) == [tag |-> "result", attempt |-> attempt]

\* The locals of a call of the wrapped function that has not been made yet.
IdleRetry ==
  [pc |-> "idle", attempt |-> 0, lastError |-> Undefined, delay |-> 0,
   settled |-> "pending", value |-> Undefined, fnCalls |-> 0, thrown |-> Undefined,
   sleeps |-> <<>>, retries |-> <<>>, events |-> <<>>]

\* What a call of a wrapped function did, in order: the calls of fn, of
\* onRetry and of sleep, and the ends of the awaited onRetry and sleep.
Did(type, n) == [type |-> type, n |-> n]

\* retry.ts 106: return result
RtResolve(r, v) == [r EXCEPT !.pc = "done", !.settled = "resolved", !.value = v]

\* retry.ts 115 and 143: throw lastError
RtReject(r, e) == [r EXCEPT !.pc = "done", !.settled = "rejected", !.value = e]

\* A loop that tests after the first attempt.
AttemptAtLeastOnce(r) ==
  IF r.attempt = 0 \/ r.attempt < finalConfig.maxAttempts
    THEN [r EXCEPT !.pc = "fn", !.attempt = @ + 1, !.fnCalls = @ + 1,
                   !.events = Append(@, Did("fn", r.attempt + 1))]
    ELSE RtReject(r, r.lastError)

\* retry.ts 94-99: the loop test, and the call of fn of the next attempt.
Attempt(r) ==
  IF r.attempt < finalConfig.maxAttempts
    THEN [r EXCEPT !.pc = "fn", !.attempt = @ + 1, !.fnCalls = @ + 1,
                   !.events = Append(@, Did("fn", r.attempt + 1))]
    ELSE RtReject(r, r.lastError)

\* The promise the call awaits is never resolved.
SleepNeverEnds(r) ==
  [r EXCEPT !.pc = "suspended", !.sleeps = Append(@, r.delay),
            !.events = Append(@, Did("sleep", r.delay))]

\* retry.ts 138: await sleep(delay)
Sleep(r) ==
  [r EXCEPT !.pc = "sleep", !.sleeps = Append(@, r.delay),
            !.events = Append(@, Did("sleep", r.delay))]

\* Only isRetryable decides whether to retry: the last attempt is followed by
\* onRetry and a sleep like the others.
CaughtRetriesLast(r, error, delay) ==
  LET lastError == Normalize(error)
      r1 == [r EXCEPT !.lastError = lastError, !.thrown = error]
  IN IF ~Retryable(finalConfig.isRetryable, lastError)
       THEN [r1 EXCEPT !.pc = "done", !.settled = "rejected", !.value = lastError]
       ELSE IF finalConfig.onRetry # NoValue
         THEN [r1 EXCEPT !.pc = "onRetry", !.delay = delay,
                         !.retries = Append(@, <<r.attempt, lastError, delay>>),
                         !.events = Append(@, Did("onRetry", r.attempt))]
         ELSE [r1 EXCEPT !.pc = "sleep", !.delay = delay, !.sleeps = Append(@, delay),
                         !.events = Append(@, Did("sleep", delay))]

\* Only the number of attempts decides whether to retry.
CaughtIgnoresPredicate(r, error, delay) ==
  LET lastError == Normalize(error)
      r1 == [r EXCEPT !.lastError = lastError, !.thrown = error]
  IN IF ~(r.attempt < finalConfig.maxAttempts)
       THEN [r1 EXCEPT !.pc = "done", !.settled = "rejected", !.value = lastError]
       ELSE IF finalConfig.onRetry # NoValue
         THEN [r1 EXCEPT !.pc = "onRetry", !.delay = delay,
                         !.retries = Append(@, <<r.attempt, lastError, delay>>),
                         !.events = Append(@, Did("onRetry", r.attempt))]
         ELSE [r1 EXCEPT !.pc = "sleep", !.delay = delay, !.sleeps = Append(@, delay),
                         !.events = Append(@, Did("sleep", delay))]

\* retry.ts 107-138: the catch of a throw of fn, up to the next await.
Caught(r, error, delay) ==
  LET lastError == Normalize(error)
      shouldRetry == Retryable(finalConfig.isRetryable, lastError)
                       /\ r.attempt < finalConfig.maxAttempts
      r1 == [r EXCEPT !.lastError = lastError, !.thrown = error]
  IN IF ~shouldRetry
       THEN RtReject(r1, lastError)
       ELSE IF finalConfig.onRetry # NoValue
         THEN [r1 EXCEPT !.pc = "onRetry", !.delay = delay,
                         !.retries = Append(@, <<r.attempt, lastError, delay>>),
                         !.events = Append(@, Did("onRetry", r.attempt))]
         ELSE Sleep([r1 EXCEPT !.delay = delay])

\* retry.ts 90-99: the call of the function retry returned.
RetryCall ==
  /\ rt.pc = "idle"
  /\ rt' = Attempt(rt)
  /\ UNCHANGED <<lifecycleVars, pipeVars, registryVars, streamVars, finalConfig, ro>>

\* The awaited fn resolved.
FnResolves ==
  /\ rt.pc = "fn"
  /\ rt' = RtResolve(rt, ResultOf(rt.attempt))
  /\ UNCHANGED <<lifecycleVars, pipeVars, registryVars, streamVars, finalConfig, ro>>

\* The awaited fn threw error.
FnThrows(error) ==
  /\ rt.pc = "fn"
  /\ \E delay \in Delays(rt.attempt) : rt' = Caught(rt, error, delay)
  /\ UNCHANGED <<lifecycleVars, pipeVars, registryVars, streamVars, finalConfig, ro>>

\* What onRetry throws when the configured callback is one that throws.
callbackError == [isError |-> TRUE, name |-> "Error", message |-> "Callback error"]

\* A throw of the onRetry callback leaves the wrapped function.
CallbackSettledRethrow(r) ==
  IF finalConfig.onRetry = "throws"
    THEN [r EXCEPT !.pc = "done", !.settled = "rejected", !.value = callbackError]
    ELSE [r EXCEPT !.pc = "sleep", !.sleeps = Append(@, r.delay),
                   !.events = Append(@, Did("sleep", r.delay))]

\* retry.ts 129-138: the awaited onRetry returned, or it threw and the catch
\* logged the throw; either way the sleep follows.
CallbackSettled(r) == Sleep(r)

\* retry.ts 129-135: the awaited onRetry callback settled.
OnRetrySettles ==
  /\ rt.pc = "onRetry"
  /\ rt' = CallbackSettled([rt EXCEPT !.events = Append(@, Did("onRetryEnd", rt.attempt))])
  /\ UNCHANGED <<lifecycleVars, pipeVars, registryVars, streamVars, finalConfig, ro>>

\* The timer of sleep fired: the loop goes on.
SleepEnds ==
  /\ rt.pc = "sleep"
  /\ rt' = Attempt([rt EXCEPT !.events = Append(@, Did("sleepEnd", rt.delay))])
  /\ UNCHANGED <<lifecycleVars, pipeVars, registryVars, streamVars, finalConfig, ro>>

\* ---- retryWithOutcome ----------------------------------------------------
\* outcome.ts: successOutcome, failureOutcome and exceptionOutcome; causes and
\* errors are always arrays.
successOutcome(v) == [tag |-> "Success", value |-> v, causes |-> <<>>, errors |-> <<>>]

failureOutcome(cs) == [tag |-> "Failure", value |-> NoValue, causes |-> cs, errors |-> <<>>]

exceptionOutcome(es) == [tag |-> "Exception", value |-> NoValue, causes |-> <<>>, errors |-> es]

\* The Outcomes fn returns: a Success, a Failure with a validation cause, and
\* Exceptions with one error or two, of which timeoutErrors accepts the
\* TimeoutError only.
FnOutcomes ==
  { successOutcome("success"),
    failureOutcome(<<exception("ValidationError", "Invalid input")>>),
    exceptionOutcome(<<exception("TimeoutError", "timed out")>>),
    exceptionOutcome(<<exception("DatabaseError", "down")>>),
    exceptionOutcome(<<exception("DatabaseError", "down"), exception("TimeoutError", "timed out")>>) }

\* The locals of a call of the wrapped function that has not been made yet.
IdleOutcome ==
  [pc |-> "idle", attempt |-> 0, lastError |-> Undefined, delay |-> 0,
   settled |-> "pending", value |-> Undefined, fnCalls |-> 0, returned |-> Undefined,
   returnedAt |-> 0, sleeps |-> <<>>, retries |-> <<>>, events |-> <<>>]

\* retry.ts 188, 202, 206, 232: return of an Outcome
WoResolve(r, v) == [r EXCEPT !.pc = "done", !.settled = "resolved", !.value = v]

\* retry.ts 184: fn threw; the await is in no try, the throw leaves the call.
WoReject(r, e) == [r EXCEPT !.pc = "done", !.settled = "rejected", !.value = e]

\* retry.ts 181-184 and 232: the loop test, and the call of fn of the next
\* attempt.
WoAttempt(r) ==
  IF r.attempt < finalConfig.maxAttempts
    THEN [r EXCEPT !.pc = "fn", !.attempt = @ + 1, !.fnCalls = @ + 1,
                   !.events = Append(@, Did("fn", r.attempt + 1))]
    ELSE WoResolve(r, IF r.lastError # Undefined
                        THEN r.lastError
                        ELSE exceptionOutcome(<<exception("InternalError", "Unknown error")>>))

\* retry.ts 228: await sleep(delay)
WoSleep(r) ==
  [r EXCEPT !.pc = "sleep", !.sleeps = Append(@, r.delay),
            !.events = Append(@, Did("sleep", r.delay))]

\* retry.ts 197-199: errors.some(error => finalConfig.isRetryable(error))
SomeRetryable(errors) ==
  \E n \in 1..Len(errors) : Retryable(finalConfig.isRetryable, errors[n])

\* A Failure outcome is retried like an Exception outcome, and onRetry gets
\* Exceptions.internal("Operation failed") for it.
WoReturnedRetriesFailure(r, result, delay) ==
  LET r1 == [r EXCEPT !.returned = result, !.returnedAt = r.attempt]
      r2 == [r1 EXCEPT !.lastError = result]
      error == IF result.tag = "Exception"
                 THEN result.errors[1]
                 ELSE exception("InternalError", "Operation failed")
  IN IF result.tag = "Success"
       THEN WoResolve(r1, result)
       ELSE IF \/ result.tag = "Exception" /\ ~SomeRetryable(result.errors)
               \/ r.attempt >= finalConfig.maxAttempts
         THEN WoResolve(r2, result)
         ELSE IF finalConfig.onRetry # NoValue
           THEN [r2 EXCEPT !.pc = "onRetry", !.delay = delay,
                           !.retries = Append(@, <<r.attempt, error, delay>>),
                           !.events = Append(@, Did("onRetry", r.attempt))]
           ELSE WoSleep([r2 EXCEPT !.delay = delay])

\* retry.ts 184-228: fn returned result; the run up to the next await.
WoReturned(r, result, delay) ==
  LET r1 == [r EXCEPT !.returned = result, !.returnedAt = r.attempt]
      r2 == [r1 EXCEPT !.lastError = result]
  IN IF result.tag = "Success"
       THEN WoResolve(r1, result)
       ELSE IF result.tag = "Exception"
         THEN IF ~SomeRetryable(result.errors) \/ r.attempt >= finalConfig.maxAttempts
                THEN WoResolve(r2, result)
                ELSE IF finalConfig.onRetry # NoValue
                  THEN [r2 EXCEPT !.pc = "onRetry", !.delay = delay,
                                  !.retries = Append(@, <<r.attempt, result.errors[1], delay>>),
                                  !.events = Append(@, Did("onRetry", r.attempt))]
                  ELSE WoSleep([r2 EXCEPT !.delay = delay])
         ELSE WoResolve(r2, result)

\* retry.ts 216-228: the awaited onRetry returned, or it threw and the catch
\* logged the throw; either way the sleep follows.
WoCallbackSettled(r) == WoSleep(r)

\* retry.ts 177-184: the call of the function retryWithOutcome returned.
WithOutcomeCall ==
  /\ ro.pc = "idle"
  /\ ro' = WoAttempt(ro)
  /\ UNCHANGED <<lifecycleVars, pipeVars, registryVars, streamVars, finalConfig, rt>>

\* The awaited fn resolved with an Outcome.
WoFnReturns(result) ==
  /\ ro.pc = "fn"
  /\ \E delay \in Delays(ro.attempt) : ro' = WoReturned(ro, result, delay)
  /\ UNCHANGED <<lifecycleVars, pipeVars, registryVars, streamVars, finalConfig, rt>>

\* The awaited fn threw error, as the fn of the documented example does.
WoFnThrows(error) ==
  /\ ro.pc = "fn"
  /\ ro' = WoReject(ro, error)
  /\ UNCHANGED <<lifecycleVars, pipeVars, registryVars, streamVars, finalConfig, rt>>

\* retry.ts 216-225: the awaited onRetry callback settled.
WoOnRetrySettles ==
  /\ ro.pc = "onRetry"
  /\ ro' = WoCallbackSettled([ro EXCEPT !.events = Append(@, Did("onRetryEnd", ro.attempt))])
  /\ UNCHANGED <<lifecycleVars, pipeVars, registryVars, streamVars, finalConfig, rt>>

\* The timer of sleep fired: the loop goes on.
WoSleepEnds ==
  /\ ro.pc = "sleep"
  /\ ro' = WoAttempt([ro EXCEPT !.events = Append(@, Did("sleepEnd", ro.delay))])
  /\ UNCHANGED <<lifecycleVars, pipeVars, registryVars, streamVars, finalConfig, rt>>

\* ---- createCommandRegistry (alias.ts) ------------------------------------
\* The names and the procedures the callers of the registry use.
CommandNames == <<"getUser", "fetchUser", "shared", "findUser">>

Names == {CommandNames[i] : i \in 1..MaxNames}

ProcedureNames == <<"proc1", "proc2", "proc3">>

Procedures == {ProcedureNames[i] : i \in 1..MaxProcedures}

\* What get and resolve return for a name they do not find.
Absent == "undefined"

\* A Map is the sequence of its entries and a Set the sequence of its
\* members, both in insertion order.
MapHas(m, k) == \E i \in DOMAIN m : m[i].key = k

MapGet(m, k) == m[CHOOSE i \in DOMAIN m : m[i].key = k].value

MapSet(m, k, v) ==
  IF MapHas(m, k)
    THEN [i \in DOMAIN m |-> IF m[i].key = k THEN [key |-> k, value |-> v] ELSE m[i]]
    ELSE Append(m, [key |-> k, value |-> v])

MapKeys(m) == [i \in DOMAIN m |-> m[i].key]

SetHas(s, x) == \E i \in DOMAIN s : s[i] = x

SetAdd(s, x) == IF SetHas(s, x) THEN s ELSE Append(s, x)

has(cmds, name) == MapHas(cmds, name)

get(cmds, name) == IF MapHas(cmds, name) THEN MapGet(cmds, name) ELSE Absent

getAliases(als, name) == IF MapHas(als, name) THEN MapGet(als, name) ELSE <<>>

\* The first member of the alias set that is not the name itself.
resolve(als, aliasName) ==
  IF ~MapHas(als, aliasName)
    THEN Absent
    ELSE LET aliasSet == MapGet(als, aliasName)
             others == SelectSeq(aliasSet, LAMBDA cmd : cmd # aliasName)
         IN IF others = <<>> THEN Absent ELSE Head(others)

getAllNames(cmds) == MapKeys(cmds)

IsPrimaryAnywhere(e) == SetHas(e.value, e.key)

IsPrimary(e) == SetHas(e.value, e.key) /\ Head(e.value) = e.key

getCommandNames(als) == MapKeys(SelectSeq(als, IsPrimary))

getStats(cmds, als) ==
  [totalCommands |-> Len(cmds),
   primaryCommands |-> Len(getCommandNames(als)),
   totalAliases |-> Len(cmds) - Len(getCommandNames(als))]

\* ---- the calls made on the registry --------------------------------------
NoLog ==
  [calls |-> 0,
   ops |-> <<>>,
   before |-> [commands |-> <<>>, aliases |-> <<>>],
   registered |-> {},
   introduced |-> {},
   unregistered |-> FALSE]

RegistryOp(op, commandName, aliasName, procedure, threw) ==
  [op |-> op, command |-> commandName, alias |-> aliasName,
   procedure |-> procedure, threw |-> threw]

\* The log counts the calls and keeps the last two of them, the maps before the last of them, the
\* names register was called with (registered), those of them that were
\* unknown at that call (introduced), and whether unregister has been called.
Logged(o, cmds) ==
  LET known == {cmds[i].key : i \in DOMAIN cmds}
      called == IF o.op = "register" THEN {o.command} ELSE {}
      fresh == IF o.op = "register" /\ ~has(commands, o.command) THEN {o.command} ELSE {}
  IN [calls |-> registryLog.calls + 1,
      ops |-> IF registryLog.ops = <<>> THEN <<o>> ELSE <<registryLog.ops[Len(registryLog.ops)], o>>,
      before |-> [commands |-> commands, aliases |-> aliases],
      registered |-> (registryLog.registered \cup called) \cap known,
      introduced |-> (registryLog.introduced \cup fresh) \cap known,
      unregistered |-> IF o.op = "clear" THEN FALSE
                       ELSE registryLog.unregistered \/ o.op = "unregister"]

registerCommands(name, procedure) == MapSet(commands, name, procedure)

registerAliasesNoSet(name) == aliases

registerAliases(name) ==
  IF ~MapHas(aliases, name) THEN MapSet(aliases, name, <<name>>) ELSE aliases

register(name, procedure) ==
  /\ registryLog.calls < MaxRegistryCalls
  /\ commands' = registerCommands(name, procedure)
  /\ aliases' = registerAliases(name)
  /\ registryLog' = Logged(RegistryOp("register", name, Absent, procedure, FALSE), commands')
  /\ UNCHANGED <<lifecycleVars, retryVars, pipeVars, streamVars>>

aliasThrows(commandName) == ~MapHas(commands, commandName)

\* The commands map after alias(commandName, aliasName): untouched when the
\* call throws, which it does before any write.
aliasCommandsFirstWins(commandName, aliasName) ==
  IF aliasThrows(commandName) \/ MapHas(commands, aliasName)
    THEN commands
    ELSE MapSet(commands, aliasName, MapGet(commands, commandName))

aliasCommandsSetsFirst(commandName, aliasName) ==
  MapSet(commands, aliasName, get(commands, commandName))

aliasCommands(commandName, aliasName) ==
  IF aliasThrows(commandName)
    THEN commands
    ELSE MapSet(commands, aliasName, MapGet(commands, commandName))

aliasAliasesOneWay(commandName, aliasName) ==
  LET forward == MapSet(aliases, commandName, SetAdd(MapGet(aliases, commandName), aliasName))
  IN IF ~MapHas(forward, aliasName) THEN MapSet(forward, aliasName, <<>>) ELSE forward

aliasAliases(commandName, aliasName) ==
  LET forward == MapSet(aliases, commandName, SetAdd(MapGet(aliases, commandName), aliasName))
      created == IF ~MapHas(forward, aliasName) THEN MapSet(forward, aliasName, <<>>) ELSE forward
  IN MapSet(created, aliasName, SetAdd(MapGet(created, aliasName), commandName))

\* aliases.get(commandName)!.add(aliasName) is a TypeError when the command has
\* no alias set; commands has been written by then.
aliasFindsNoSet(commandName) ==
  MapHas(commands, commandName) /\ ~MapHas(aliases, commandName)

alias(commandName, aliasName) ==
  /\ registryLog.calls < MaxRegistryCalls
  /\ IF aliasThrows(commandName) \/ aliasFindsNoSet(commandName)
       THEN /\ commands' = aliasCommands(commandName, aliasName)
            /\ aliases' = aliases
            /\ registryLog' = Logged(RegistryOp("alias", commandName, aliasName, Absent, TRUE), commands')
       ELSE /\ commands' = aliasCommands(commandName, aliasName)
            /\ aliases' = aliasAliases(commandName, aliasName)
            /\ registryLog' = Logged(RegistryOp("alias", commandName, aliasName, Absent, FALSE), commands')
  /\ UNCHANGED <<lifecycleVars, retryVars, pipeVars, streamVars>>

\* Every member of the alias set of commandName is deleted from both maps.
unregisterDeletes(commandName) == getAliases(aliases, commandName)

unregister(commandName) ==
  LET aliasSet == unregisterDeletes(commandName)
  IN /\ registryLog.calls < MaxRegistryCalls
     /\ commands' = SelectSeq(commands, LAMBDA e : ~SetHas(aliasSet, e.key))
     /\ aliases' = SelectSeq(aliases, LAMBDA e : ~SetHas(aliasSet, e.key))
     /\ registryLog' = Logged(RegistryOp("unregister", commandName, Absent, Absent, FALSE), commands')
     /\ UNCHANGED <<lifecycleVars, retryVars, pipeVars, streamVars>>

clear ==
  /\ registryLog.calls < MaxRegistryCalls
  /\ commands' = <<>>
  /\ aliases' = <<>>
  /\ registryLog' = Logged(RegistryOp("clear", Absent, Absent, Absent, FALSE), commands')
  /\ UNCHANGED <<lifecycleVars, retryVars, pipeVars, streamVars>>

NoRegistry ==
  /\ commands = <<>>
  /\ aliases = <<>>
  /\ registryLog = NoLog

\* ---- CacheInvalidationStream (events/stream.ts) --------------------------
DefaultMaxHistorySize == 1000

Keys == {"key0", "key1"}

Tags == {"users"}

TagLists == {<<>>, <<"users">>}

Operations == {"createUser"}

\* The Outcomes notifyMutation is called with, one of each tag.
MutationResults ==
  { successOutcome("success"),
    failureOutcome(<<exception("ValidationError", "Invalid input")>>),
    exceptionOutcome(<<exception("TimeoutError", "timed out")>>) }

\* Date.now() is read as a clock that ticks once per published event.
CacheInvalidationEvent(key, tags, now) ==
  [type |-> "invalidation", key |-> key, timestamp |-> now, tags |-> tags]

Defined(v) == [tag |-> "defined", value |-> v, causes |-> <<>>, errors |-> <<>>]

MutationEvent(operation, result, now) ==
  [type |-> "mutation", operation |-> operation, timestamp |-> now,
   result |-> IF result.tag = "Success" THEN Defined(result.value) ELSE Undefined,
   error |-> IF result.tag = "Exception" THEN Defined(result.errors)
             ELSE IF result.tag = "Failure" THEN Defined(result.causes) ELSE Undefined]

NewStream ==
  [subscriptions |-> <<>>,
   eventHistory |-> <<>>,
   maxHistorySize |-> DefaultMaxHistorySize,
   subscriptionIdCounter |-> 0]

\* Array.prototype.slice(-size): the last size elements, and the whole array
\* for size 0, since -0 is the index 0.
SliceLast(a, size) ==
  LET start == IF size = 0 THEN 0
               ELSE IF Len(a) - size < 0 THEN 0 ELSE Len(a) - size
  IN SubSeq(a, start + 1, Len(a))

setMaxHistorySizeOf(s, size) ==
  [s EXCEPT !.maxHistorySize = size,
            !.eventHistory = IF Len(@) > size THEN SliceLast(@, size) ELSE @]

addToHistoryDropsNewest(s, event) ==
  LET pushed == Append(s.eventHistory, event)
  IN [s EXCEPT !.eventHistory =
        IF Len(pushed) > s.maxHistorySize THEN SubSeq(pushed, 1, Len(pushed) - 1) ELSE pushed]

addToHistory(s, event) ==
  LET pushed == Append(s.eventHistory, event)
  IN [s EXCEPT !.eventHistory =
        IF Len(pushed) > s.maxHistorySize THEN Tail(pushed) ELSE pushed]

getHistory(s) == s.eventHistory

getSubscriptions(s) == SelectSeq(s.subscriptions, LAMBDA sub : sub.active)

StreamStats(s) ==
  [totalSubscriptions |-> Len(s.subscriptions),
   activeSubscriptions |-> Len(getSubscriptions(s)),
   eventHistorySize |-> Len(s.eventHistory),
   maxHistorySize |-> s.maxHistorySize]

\* createCacheStream(options): a falsy options.maxHistorySize, absent or 0,
\* leaves the default.
createCacheStream(size) ==
  IF size = 0 THEN NewStream ELSE setMaxHistorySizeOf(NewStream, size)

\* ---- subscriptions and delivery --------------------------------------------
\* The keys subscribe is called with: a cache key, and a key that reads like
\* the one subscribeByTags makes up.
SubscriptionKeys == {"key0", "tags:users"}

\* The keys invalidate is called with when subscribers listen.
PublishedKeys == Keys \cup {"tags:users"}

\* key.startsWith(prefix), for the keys above.
StartsWith(key, prefix) ==
  CASE prefix = "tags:" -> key = "tags:users"
    [] prefix = "mutations:" -> key = "mutations:createUser"
    [] OTHER -> FALSE

\* What the callbacks of the subscribers do when they are called: return,
\* throw, subscribe to their own key, or call the unsubscribe closure of the
\* subscription created after theirs, once there is one.
Callbacks == {"returns", "throws", "subscribes", "unsubscribes"}

\* kind is the method that made the subscription; subscribeByTags and
\* subscribeToMutations wrap the caller's callback in a test of their own.
Subscription(id, key, tags, operations, kind, callback) ==
  [id |-> id, key |-> key, tags |-> tags, operations |-> operations,
   active |-> TRUE, kind |-> kind, callback |-> callback]

Includes(list, x) == \E i \in DOMAIN list : list[i] = x

Overlap(list1, list2) == \E i \in DOMAIN list1 : Includes(list2, list1[i])

\* stream.ts 396-415
shouldNotify(subscription, event) ==
  IF StartsWith(subscription.key, "tags:")
    THEN event.type = "invalidation" /\ Overlap(event.tags, subscription.tags)
    ELSE IF StartsWith(subscription.key, "mutations:")
      THEN event.type = "mutation" /\ Includes(subscription.operations, event.operation)
      ELSE IF event.type = "invalidation"
        THEN subscription.key = event.key
        ELSE FALSE

\* stream.ts 246-254 and 290-294: the test of the wrapping callback.
WrapperPasses(sub, event) ==
  CASE sub.kind = "tags" -> event.type = "invalidation" /\ Overlap(event.tags, sub.tags)
    [] sub.kind = "mutations" ->
         event.type = "mutation" /\ Includes(sub.operations, event.operation)
    [] OTHER -> TRUE

\* stream.ts 196-213: the stream with one more subscription.
subscribed(s, key, tags, operations, kind, callback) ==
  [s EXCEPT
     !.subscriptions = Append(@, Subscription(s.subscriptionIdCounter, key, tags,
                                               operations, kind, callback)),
     !.subscriptionIdCounter = @ + 1]

\* stream.ts 215-221: the closure subscribe returned for the subscription id.
unsubscribed(s, id) ==
  [s EXCEPT !.subscriptions = SelectSeq(@, LAMBDA sub : sub.id # id)]

Delivered(id) == [type |-> "deliver", id |-> id]

Unsubscribed(id) == [type |-> "unsubscribe", id |-> id]

\* The throw of a callback leaves notifySubscribers.
CallbackThrewAborts(d) == [d EXCEPT !.threw = TRUE]

\* stream.ts 386-388: the throw of a callback is caught and logged.
CallbackThrew(d) == d

\* The caller's callback of sub is called with the event.
RunCallback(d, sub) ==
  LET called == [d EXCEPT !.log = Append(@, Delivered(sub.id))]
  IN CASE sub.callback = "throws" -> CallbackThrew(called)
       [] sub.callback = "subscribes" ->
            [called EXCEPT !.stream = subscribed(@, sub.key, <<>>, <<>>, "key", "returns")]
       [] sub.callback = "unsubscribes" /\ sub.id + 1 < d.stream.subscriptionIdCounter ->
            [called EXCEPT !.stream = unsubscribed(@, sub.id + 1),
                           !.log = Append(@, Unsubscribed(sub.id + 1))]
       [] OTHER -> called

\* A dispatch that skips the subscriptions removed since it started.
ReceivesWhileSubscribed(s, sub, event) ==
  /\ \E i \in DOMAIN s.subscriptions : s.subscriptions[i].id = sub.id
  /\ shouldNotify(sub, event)

\* stream.ts 383: the test made for each subscription of the array
\* getSubscriptions() returned when the dispatch started.
Receives(s, sub, event) == shouldNotify(sub, event)

\* stream.ts 380-391: forEach over the subscriptions that were active.
RECURSIVE notifySubscribers(_, _, _)
notifySubscribers(d, snapshot, event) ==
  IF snapshot = <<>> \/ d.threw
    THEN d
    ELSE LET sub == Head(snapshot)
             after == IF Receives(d.stream, sub, event) /\ WrapperPasses(sub, event)
                        THEN RunCallback(d, sub)
                        ELSE d
         IN notifySubscribers(after, Tail(snapshot), event)

\* The events a list of invalidations publishes.
RECURSIVE InvalidationEvents(_, _)
InvalidationEvents(items, now) ==
  IF items = <<>> THEN <<>>
  ELSE <<CacheInvalidationEvent(Head(items).key, Head(items).tags, now)>>
         \o InvalidationEvents(Tail(items), now + 1)

\* stream.ts 99-100 and 171-172, for each event in turn: addToHistory, then
\* notifySubscribers. log is the dispatch of the last event.
RECURSIVE Published(_, _)
Published(d, events) ==
  IF events = <<>> \/ d.threw THEN d
  ELSE LET recorded == addToHistory(d.stream, Head(events))
       IN Published(notifySubscribers([stream |-> recorded, log |-> <<>>, threw |-> FALSE],
                                      getSubscriptions(recorded), Head(events)),
                    Tail(events))

NoEvent == [type |-> "none"]

NoStreamLog ==
  [published |-> 0, window |-> <<>>, before |-> <<>>,
   event |-> NoEvent, log |-> <<>>, threw |-> FALSE, closed |-> {}]

\* What the log keeps of a call that published nothing.
Unpublished ==
  [streamLog EXCEPT !.before = <<>>, !.event = NoEvent,
                    !.log = <<>>, !.threw = FALSE]

Publish(events) ==
  LET d == Published([stream |-> stream, log |-> <<>>, threw |-> FALSE], events)
  IN /\ streamLog.published + Len(events) <= MaxEvents
     /\ stream' = d.stream
     /\ streamLog' = [Unpublished EXCEPT
          !.before = getSubscriptions(stream),
          !.published = @ + Len(events),
          !.window = @ \o events,
          !.event = IF events = <<>> THEN NoEvent ELSE events[Len(events)],
          !.log = d.log,
          !.threw = d.threw,
          !.closed = @ \cup {d.log[i].id : i \in {j \in DOMAIN d.log : d.log[j].type = "unsubscribe"}}]
     /\ UNCHANGED <<lifecycleVars, retryVars, pipeVars, registryVars>>

invalidate(key, tags) ==
  Publish(InvalidationEvents(<<[key |-> key, tags |-> tags]>>, streamLog.published))

invalidateMany(keys, tags) ==
  Publish(InvalidationEvents([i \in DOMAIN keys |-> [key |-> keys[i], tags |-> tags]],
                             streamLog.published))

\* One invalidation per subscription whose tag filter includes the tag.
TaggedWith(s, tag) ==
  SelectSeq(s.subscriptions, LAMBDA sub : Includes(sub.tags, tag))

invalidateByTag(tag) ==
  LET subs == TaggedWith(stream, tag)
  IN Publish(InvalidationEvents([i \in DOMAIN subs |-> [key |-> subs[i].key, tags |-> <<tag>>]],
                                streamLog.published))

notifyMutation(operation, result) ==
  Publish(<<MutationEvent(operation, result, streamLog.published)>>)

Subscribe(key, tags, operations, kind, callback) ==
  /\ stream.subscriptionIdCounter < MaxSubscriptions
  /\ stream' = subscribed(stream, key, tags, operations, kind, callback)
  /\ streamLog' = Unpublished
  /\ UNCHANGED <<lifecycleVars, retryVars, pipeVars, registryVars>>

subscribe(key, callback) == Subscribe(key, <<>>, <<>>, "key", callback)

\* subscribeByTags(["users"], callback) subscribes to the key "tags:users".
subscribeByTags(callback) == Subscribe("tags:users", <<"users">>, <<>>, "tags", callback)

\* subscribeToMutations(["createUser"], callback) subscribes to the key
\* "mutations:createUser".
subscribeToMutations(callback) ==
  Subscribe("mutations:createUser", <<>>, <<"createUser">>, "mutations", callback)

\* A call of the closure subscribe returned for the subscription id.
unsubscribe(id) ==
  /\ id < stream.subscriptionIdCounter
  /\ stream' = unsubscribed(stream, id)
  /\ streamLog' = [Unpublished EXCEPT !.closed = @ \cup {id}]
  /\ UNCHANGED <<lifecycleVars, retryVars, pipeVars, registryVars>>

clearSubscriptions ==
  /\ stream' = [stream EXCEPT !.subscriptions = <<>>]
  /\ streamLog' = Unpublished
  /\ UNCHANGED <<lifecycleVars, retryVars, pipeVars, registryVars>>

clearHistory ==
  /\ stream' = [stream EXCEPT !.eventHistory = <<>>]
  /\ streamLog' = [Unpublished EXCEPT !.window = <<>>]
  /\ UNCHANGED <<lifecycleVars, retryVars, pipeVars, registryVars>>

setMaxHistorySize(size) ==
  /\ stream' = setMaxHistorySizeOf(stream, size)
  /\ streamLog' = [Unpublished EXCEPT !.window = <<>>]
  /\ UNCHANGED <<lifecycleVars, retryVars, pipeVars, registryVars>>

NoStream ==
  /\ stream = NewStream
  /\ streamLog = NoStreamLog

\* ---- Outcome, withTrace and pipe (outcome.ts) ------------------------------
\* An Outcome object with its metadata.trace; ref tells the objects apart.
Traced(ref, o) ==
  [ref |-> ref, tag |-> o.tag, value |-> o.value, causes |-> o.causes,
   errors |-> o.errors, trace |-> <<>>]

\* The functions pipe is given, by the Outcome they return for a value.
PipeFunctions == {"validate", "double", "reject", "crash"}

Applied(fn, value) ==
  CASE fn = "validate" -> successOutcome(value)
    [] fn = "double" -> successOutcome("doubled")
    [] fn = "reject" -> failureOutcome(<<exception("ValidationError", "Value must be positive")>>)
    [] OTHER -> exceptionOutcome(<<exception("DatabaseError", "down")>>)

\* The descriptions pipe is given: none, the empty string, and two names.
Descriptions == {Absent, "", "validate", "double"}

Truthy(description) == description \notin {Absent, ""}

Step(outcome, description) == [outcome |-> outcome, description |-> description]

\* part_016 274-291: a new object, the outcome's trace with one more Step.
withTrace(outcome, description, ref) ==
  [outcome EXCEPT !.ref = ref, !.trace = Append(@, Step(outcome, description))]

\* A pipe that records the Step on a Failure or an Exception as well.
pipeTracesFailures(outcome, fn, description, ref) ==
  IF outcome.tag # "Success"
    THEN withTrace(outcome, description, ref)
    ELSE LET result == Traced(ref, Applied(fn, outcome.value))
         IN IF Truthy(description) THEN withTrace(result, description, ref + 1) ELSE result

\* part_016 296-307
pipe(outcome, fn, description, ref) ==
  IF outcome.tag # "Success"
    THEN outcome
    ELSE LET result == Traced(ref, Applied(fn, outcome.value))
         IN IF Truthy(description) THEN withTrace(result, description, ref + 1) ELSE result

\* part_016 301-305: the calls of fn a pipe call makes.
pipeCalls(outcome) == IF outcome.tag # "Success" THEN 0 ELSE 1

\* The Outcomes a chain of pipe calls starts from.
CreatedOutcomes ==
  { successOutcome("five"),
    failureOutcome(<<exception("NotFound", "Not found")>>),
    exceptionOutcome(<<exception("Error", "Error")>>) }

NewChain(o) ==
  [outcome |-> Traced(1, o), input |-> Traced(1, o), fnCalls |-> 0, pipes |-> 0,
   described |-> 0, description |-> Absent, nextRef |-> 2]

\* pipe(chain.outcome, fn, description): the result becomes the outcome of the
\* chain; described counts the calls so far when all of them had a
\* description and a Success to work on.
Pipe(fn, description) ==
  /\ chain.pipes < MaxPipes
  /\ chain' = [outcome |-> pipe(chain.outcome, fn, description, chain.nextRef),
               input |-> chain.outcome,
               fnCalls |-> pipeCalls(chain.outcome),
               pipes |-> chain.pipes + 1,
               described |-> IF /\ chain.described = chain.pipes
                                /\ Truthy(description)
                                /\ chain.outcome.tag = "Success"
                               THEN chain.described + 1 ELSE chain.described,
               description |-> description,
               nextRef |-> chain.nextRef + 2]
  /\ UNCHANGED <<lifecycleVars, retryVars, registryVars, streamVars>>

NoChain == chain = NewChain(successOutcome("five"))

\* ---- specifications ----------------------------------------------------
NoRetry ==
  /\ finalConfig = defaultRetryConfig
  /\ rt = IdleRetry
  /\ ro = IdleOutcome

NoTracking ==
  /\ failedWhile = [k \in DOMAIN calls |-> {}]
  /\ lastHookInv = 0
  /\ interleaved = FALSE
  /\ overlap = FALSE

\* query(options): a procedure without hooks, and one invocation to be made.
Init ==
  /\ state = EmptyState
  /\ calls = <<IdleCall>>
  /\ NoTracking
  /\ NoRetry
  /\ NoRegistry
  /\ NoStream
  /\ NoChain

InvocationStep ==
  \/ \E k \in Invocations, input \in Inputs : Invoke(k, input)
  \/ \E k \in Invocations : HookReturns(k)
  \/ \E k \in Invocations, err \in Thrown : HookThrows(k, err)
  \/ \E k \in Invocations, res \in HandlerResults : HandlerReturns(k, res)
  \/ \E k \in Invocations, err \in Thrown : HandlerThrows(k, err)

Next ==
  \/ InvocationStep
  \/ beforeInvoke
  \/ afterInvoke
  \/ onSuccess
  \/ onError

Spec == Init /\ [][Next]_vars

\* A procedure with MaxHooks hooks of each kind registered, called MaxCalls
\* times by callers that do not wait for one another.
InitConc ==
  /\ state = [beforeInvokeHooks |-> [n \in 1..MaxHooks |-> n],
              afterInvokeHooks |-> [n \in 1..MaxHooks |-> n],
              onSuccessHooks |-> [n \in 1..MaxHooks |-> n],
              onErrorHooks |-> [n \in 1..MaxHooks |-> n]]
  /\ calls = [k \in 1..MaxCalls |-> IdleCall]
  /\ NoTracking
  /\ NoRetry
  /\ NoRegistry
  /\ NoStream
  /\ NoChain

NextConc == InvocationStep

SpecConc == InitConc /\ [][NextConc]_vars

\* retry(fn, config), for the configurations of FinalConfigs.
InitRetry ==
  /\ state = EmptyState
  /\ calls = <<IdleCall>>
  /\ NoTracking
  /\ finalConfig \in FinalConfigs
  /\ rt = IdleRetry
  /\ ro = IdleOutcome
  /\ NoRegistry
  /\ NoStream
  /\ NoChain

\* One call is made, of the function retry returned or of the function
\* retryWithOutcome returned.
NextRetry ==
  \/ ro.pc = "idle" /\ RetryCall
  \/ FnResolves
  \/ \E error \in FnThrown : FnThrows(error)
  \/ OnRetrySettles
  \/ SleepEnds
  \/ rt.pc = "idle" /\ WithOutcomeCall
  \/ \E result \in FnOutcomes : WoFnReturns(result)
  \/ \E error \in FnThrown : WoFnThrows(error)
  \/ WoOnRetrySettles
  \/ WoSleepEnds

SpecRetry == InitRetry /\ [][NextRetry]_vars

\* Every awaited call of fn, every awaited onRetry callback and every sleep
\* terminates: the promise settles and the call is resumed.
AwaitedSettle ==
  /\ WF_vars(FnResolves \/ \E error \in FnThrown : FnThrows(error))
  /\ WF_vars(OnRetrySettles)
  /\ WF_vars(SleepEnds)
  /\ WF_vars((\E result \in FnOutcomes : WoFnReturns(result))
               \/ \E error \in FnThrown : WoFnThrows(error))
  /\ WF_vars(WoOnRetrySettles)
  /\ WF_vars(WoSleepEnds)

SpecRetryLive == SpecRetry /\ AwaitedSettle

\* createCommandRegistry(), then any calls of its methods.
InitRegistry ==
  /\ state = EmptyState
  /\ calls = <<IdleCall>>
  /\ NoTracking
  /\ NoRetry
  /\ NoRegistry
  /\ NoStream
  /\ NoChain

NextRegistry ==
  \/ \E name \in Names, procedure \in Procedures : register(name, procedure)
  \/ \E commandName \in Names, aliasName \in Names : alias(commandName, aliasName)
  \/ \E commandName \in Names : unregister(commandName)
  \/ clear

SpecRegistry == InitRegistry /\ [][NextRegistry]_vars

\* createCacheStream(options), then any calls of the stream's methods.
InitStream ==
  /\ state = EmptyState
  /\ calls = <<IdleCall>>
  /\ NoTracking
  /\ NoRetry
  /\ NoRegistry
  /\ stream \in {createCacheStream(size) : size \in 0..MaxHistory}
  /\ streamLog = NoStreamLog
  /\ NoChain

KeyLists == {<<>>} \cup {<<k>> : k \in Keys} \cup {<<k1, k2>> : k1 \in Keys, k2 \in Keys}

NextStream ==
  \/ \E key \in Keys, tags \in TagLists : invalidate(key, tags)
  \/ \E keys \in KeyLists, tags \in TagLists : invalidateMany(keys, tags)
  \/ \E tag \in Tags : invalidateByTag(tag)
  \/ \E operation \in Operations, result \in MutationResults : notifyMutation(operation, result)
  \/ subscribeByTags("returns")
  \/ clearSubscriptions
  \/ clearHistory
  \/ \E size \in 0..MaxHistory : setMaxHistorySize(size)

SpecStream == InitStream /\ [][NextStream]_vars

\* A procedure called MaxCalls times, each call made when the one before has
\* returned, while hooks are being registered on it.
InitLive ==
  /\ state = EmptyState
  /\ calls = [k \in 1..MaxCalls |-> IdleCall]
  /\ NoTracking
  /\ NoRetry
  /\ NoRegistry
  /\ NoStream
  /\ NoChain

NextLive ==
  \/ \E k \in Invocations, input \in Inputs :
       /\ \A j \in Invocations : j < k => calls[j].pc = "done"
       /\ Invoke(k, input)
  \/ \E k \in Invocations : HookReturns(k)
  \/ \E k \in Invocations, res \in HandlerResults : HandlerReturns(k, res)
  \/ beforeInvoke
  \/ afterInvoke
  \/ onSuccess
  \/ onError

SpecLive == InitLive /\ [][NextLive]_vars

\* An Outcome is created and piped through up to MaxPipes functions.
InitPipe ==
  /\ state = EmptyState
  /\ calls = <<IdleCall>>
  /\ NoTracking
  /\ NoRetry
  /\ NoRegistry
  /\ NoStream
  /\ chain \in {NewChain(o) : o \in CreatedOutcomes}

NextPipe == \E fn \in PipeFunctions, description \in Descriptions : Pipe(fn, description)

SpecPipe == InitPipe /\ [][NextPipe]_vars

\* createCacheStream({maxHistorySize: 1}), then subscribers come and go while
\* up to MaxDeliveries events are published.
InitDelivery ==
  /\ state = EmptyState
  /\ calls = <<IdleCall>>
  /\ NoTracking
  /\ NoRetry
  /\ NoRegistry
  /\ stream = createCacheStream(1)
  /\ streamLog = NoStreamLog
  /\ NoChain

NextDelivery ==
  \/ \E key \in SubscriptionKeys, callback \in Callbacks : subscribe(key, callback)
  \/ \E callback \in {"returns", "throws"} : subscribeByTags(callback)
  \/ subscribeToMutations("returns")
  \/ \E id \in 0..MaxSubscriptions : unsubscribe(id)
  \/ \E key \in PublishedKeys, tags \in TagLists :
       streamLog.published < MaxDeliveries /\ invalidate(key, tags)
  \/ streamLog.published < MaxDeliveries /\ notifyMutation("createUser", successOutcome("success"))

SpecDelivery == InitDelivery /\ [][NextDelivery]_vars

\* ---- what an invocation did, read from its record -----------------------
Iota(n) == [j \in 1..n |-> j]

\* The calls invocation r made to the hooks of the stages S, in order.
CallsIn(r, S) == SelectSeq(r.trace, LAMBDA e : e.type = "call" /\ e.stage \in S)

\* The hooks (registration ordinals) invocation r called in the stages S.
SlotsIn(r, S) == [n \in 1..Len(CallsIn(r, S)) |-> CallsIn(r, S)[n].slot]

\* The awaited calls of stage S that have ended in invocation r.
EndsIn(r, S) == SelectSeq(r.trace, LAMBDA e : e.type = "end" /\ e.stage \in S)

\* The handler was called in invocation r.
Reached(r) == Len(CallsIn(r, {"handler"})) > 0

\* The handler step of invocation r is over: it returned or threw.
HandlerOver(r) == Len(EndsIn(r, {"handler"})) > 0

\* The Result of the handler step, from what the handler returned or threw.
HandlerStepResult(r) ==
  LET out == EndsIn(r, {"handler"})[1].payload
  IN IF out.how = "returned"
       THEN out.what
       ELSE failure([name |-> "HandlerError",
                     message |-> IF out.what.isError THEN out.what.message
                                                     ELSE out.what.value])

\* The beforeInvoke hooks of invocation r that threw.
BeforeThrows(r) == SelectSeq(EndsIn(r, {"before"}), LAMBDA e : e.payload.how = "threw")

\* The error a throw of a beforeInvoke hook is reported as.
BeforeError(r) ==
  LET err == BeforeThrows(r)[1].payload.what
  IN [name |-> "BeforeInvokeError",
      message |-> IF err.isError THEN err.message ELSE err.value]

Done(r) == r.pc = "done"

\* The order of the stages of an invocation that reaches the handler.
Rank(stage) ==
  CASE stage = "before" -> 1
    [] stage = "handler" -> 2
    [] stage = "after" -> 3
    [] OTHER -> 4

\* Every awaited call of r has ended before the next call was made.
OneAtATime(r) ==
  /\ \A n \in 1..Len(r.trace) : (r.trace[n].type = "call") <=> (n % 2 = 1)
  /\ \A n \in 1..Len(r.trace) :
       n % 2 = 0 => /\ r.trace[n].stage = r.trace[n - 1].stage
                    /\ r.trace[n].stage \in HookStages
                         => r.trace[n - 1].slot = HooksOf(r.trace[n].stage)[r.trace[n].slot]
  /\ (r.pc = "await") <=> (Len(r.trace) % 2 = 1)

\* The hooks of the stages S were called in registration order, each once.
InOrder(r, S) == SlotsIn(r, S) = Iota(Len(CallsIn(r, S)))

\* C1: an invocation that reaches the handler runs its stages one after the
\* other: the beforeInvoke hooks in registration order, the handler, the
\* afterInvoke hooks in registration order, then the onSuccess hooks when the
\* handler's Result is a Success and the onError hooks when it is a Failure
\* (returned or thrown); every call has ended before the next one is made.
C1_StagesInOrder ==
  \A k \in Invocations :
    LET r == calls[k]
        all == CallsIn(r, HookStages \cup {"handler"})
    IN Reached(r) =>
         /\ OneAtATime(r)
         /\ \A p, q \in 1..Len(all) : p < q => Rank(all[p].stage) <= Rank(all[q].stage)
         /\ \A e \in {all[n] : n \in 1..Len(all)} :
              e.stage \in {"before", "handler", "after", "success", "error", "handlerErr"}
         /\ Len(CallsIn(r, {"handler"})) = 1
         /\ InOrder(r, {"before"}) /\ InOrder(r, {"after"})
         /\ InOrder(r, {"success"}) /\ InOrder(r, {"error", "handlerErr"})
         /\ Len(CallsIn(r, {"before"})) >= r.reg0.before
         /\ Len(CallsIn(r, {"success", "error", "handlerErr"})) > 0 \/ Done(r)
              => /\ HandlerOver(r)
                 /\ Len(CallsIn(r, {"after"})) >= r.reg0.after
         /\ Len(CallsIn(r, {"success"})) > 0 => isSuccess(HandlerStepResult(r))
         /\ Len(CallsIn(r, {"error", "handlerErr"})) > 0 => isFailure(HandlerStepResult(r))
         /\ Done(r) /\ isSuccess(HandlerStepResult(r))
              => Len(CallsIn(r, {"success"})) >= r.reg0.success
         /\ Done(r) /\ isFailure(HandlerStepResult(r))
              => Len(CallsIn(r, {"error", "handlerErr"})) >= r.reg0.error

\* An invocation went through two hooks of each of its stages, to a Success.
C1_Witness ==
  \E k \in Invocations :
    /\ Done(calls[k]) /\ Reached(calls[k])
    /\ isSuccess(calls[k].returned)
    /\ SlotsIn(calls[k], {"before"}) = <<1, 2>>
    /\ SlotsIn(calls[k], {"after"}) = <<1, 2>>
    /\ SlotsIn(calls[k], {"success"}) = <<1, 2>>

\* C2: when a beforeInvoke hook throws, the beforeInvoke hooks after it, the
\* handler, the afterInvoke hooks and the onSuccess hooks are not invoked in
\* that invocation; every registered onError hook is invoked exactly once with
\* an error named BeforeInvokeError that carries the throw's message; and the
\* invocation returns a Failure with that error.
C2_BeforeThrowAborts ==
  \A k \in Invocations :
    LET r == calls[k]
    IN Len(BeforeThrows(r)) > 0 =>
         /\ Len(BeforeThrows(r)) = 1
         /\ BeforeThrows(r)[1].slot = Len(CallsIn(r, {"before"}))
         /\ InOrder(r, {"before"})
         /\ CallsIn(r, (HookStages \cup {"handler"}) \ {"before", "beforeErr"}) = <<>>
         /\ InOrder(r, {"beforeErr"})
         /\ \A n \in 1..Len(CallsIn(r, {"beforeErr"})) :
              CallsIn(r, {"beforeErr"})[n].payload = BeforeError(r)
         /\ Done(r) => /\ Len(CallsIn(r, {"beforeErr"})) >= r.reg0.error
                       /\ r.settled = "resolved"
                       /\ r.returned = failure(BeforeError(r))

\* The first of two beforeInvoke hooks threw a value that is no Error, and
\* both onError hooks were invoked.
C2_Witness ==
  \E k \in Invocations :
    /\ Done(calls[k])
    /\ calls[k].reg0.before = 2
    /\ Len(BeforeThrows(calls[k])) = 1
    /\ BeforeThrows(calls[k])[1].slot = 1
    /\ ~BeforeThrows(calls[k])[1].payload.what.isError
    /\ SlotsIn(calls[k], {"beforeErr"}) = <<1, 2>>

\* C3: whether the handler returns a Success, returns a Failure or throws,
\* every registered afterInvoke hook is invoked exactly once in that call and
\* receives the Result of the handler step, a Failure named HandlerError when
\* the handler threw.
C3_AfterInvokeAlwaysRuns ==
  \A k \in Invocations :
    LET r == calls[k]
        after == CallsIn(r, {"after"})
    IN /\ ~HandlerOver(r) => after = <<>>
       /\ HandlerOver(r) =>
            /\ InOrder(r, {"after"})
            /\ \A n \in 1..Len(after) :
                 /\ after[n].payload = HandlerStepResult(r)
                 /\ after[n].ctx = r.context
                 /\ after[n].args = r.data
            /\ Done(r) \/ Len(CallsIn(r, {"success", "error", "handlerErr"})) > 0
                 => Len(after) >= r.reg0.after

\* The handler threw and both afterInvoke hooks were given the HandlerError.
C3_Witness ==
  \E k \in Invocations :
    /\ Done(calls[k]) /\ HandlerOver(calls[k])
    /\ EndsIn(calls[k], {"handler"})[1].payload.how = "threw"
    /\ SlotsIn(calls[k], {"after"}) = <<1, 2>>
    /\ CallsIn(calls[k], {"after"})[2].payload.error.name = "HandlerError"

\* C4: when the input fails validation, no beforeInvoke hook, handler,
\* afterInvoke hook or onSuccess hook is invoked; every registered onError hook
\* is invoked exactly once with the context, the raw input and an error named
\* ValidationError; and the invocation returns a Failure with that error.
C4_ValidationFailure ==
  \A k \in Invocations :
    LET r == calls[k]
        errs == CallsIn(r, {"valErr"})
    IN r.pc # "idle" /\ isFailure(parseArgs(r.input)) =>
         /\ CallsIn(r, (HookStages \cup {"handler"}) \ {"valErr"}) = <<>>
         /\ InOrder(r, {"valErr"})
         /\ \A n \in 1..Len(errs) :
              /\ errs[n].ctx = r.context
              /\ errs[n].args = r.input
              /\ errs[n].payload.name = "ValidationError"
         /\ Done(r) => /\ Len(errs) >= r.reg0.error
                       /\ r.settled = "resolved"
                       /\ isFailure(r.returned)
                       /\ r.returned.error.name = "ValidationError"
                       /\ \A n \in 1..Len(errs) : errs[n].payload = r.returned.error

\* An invalid input was reported to two onError hooks while beforeInvoke,
\* afterInvoke and onSuccess hooks were registered.
C4_Witness ==
  \E k \in Invocations :
    /\ Done(calls[k])
    /\ calls[k].input = "rawBad"
    /\ calls[k].reg0.before > 0 /\ calls[k].reg0.after > 0 /\ calls[k].reg0.success > 0
    /\ SlotsIn(calls[k], {"valErr"}) = <<1, 2>>

\* C5: in one invocation the onSuccess hooks and the onError hooks exclude
\* each other and no hook fires twice: after a Success every onSuccess hook is
\* invoked once with the value and no onError hook is; after a Failure
\* (returned, or the HandlerError of a throw) every onError hook is invoked
\* once with the error and no onSuccess hook is.
C5_SuccessXorError ==
  \A k \in Invocations :
    LET r == calls[k]
        succ == CallsIn(r, {"success"})
        errs == CallsIn(r, ErrorStages)
    IN /\ succ = <<>> \/ errs = <<>>
       /\ InOrder(r, {"success"}) /\ InOrder(r, ErrorStages)
       /\ HandlerOver(r) =>
            /\ isSuccess(HandlerStepResult(r)) =>
                 /\ errs = <<>>
                 /\ \A n \in 1..Len(succ) : succ[n].payload = HandlerStepResult(r).value
                 /\ Done(r) => Len(succ) >= r.reg0.success
            /\ isFailure(HandlerStepResult(r)) =>
                 /\ succ = <<>>
                 /\ \A n \in 1..Len(errs) : errs[n].payload = HandlerStepResult(r).error
                 /\ Done(r) => Len(errs) >= r.reg0.error

\* The handler returned a Failure: both onError hooks ran and the registered
\* onSuccess hooks did not.
C5_Witness ==
  \E k \in Invocations :
    /\ Done(calls[k]) /\ HandlerOver(calls[k])
    /\ EndsIn(calls[k], {"handler"})[1].payload.how = "returned"
    /\ isFailure(calls[k].returned)
    /\ calls[k].returned.error.name = "TestError"
    /\ calls[k].reg0.success = 2
    /\ SlotsIn(calls[k], {"error"}) = <<1, 2>>

\* C6: when a hook that runs after the handler throws, the throw is caught,
\* the hooks after it in its list and the hooks of the following stages still
\* run, and the invocation returns exactly the Result of the handler step.
C6_LateHooksObserve ==
  \A k \in Invocations :
    LET r == calls[k]
    IN Done(r) /\ Reached(r) /\ r.firstCaught # <<>> =>
         /\ r.settled = "resolved"
         /\ r.returned = HandlerStepResult(r)
         /\ Len(CallsIn(r, {"after"})) >= r.reg0.after
         /\ InOrder(r, {"after"})
         /\ isSuccess(r.returned) => /\ Len(CallsIn(r, {"success"})) >= r.reg0.success
                                     /\ InOrder(r, {"success"})
         /\ isFailure(r.returned) => /\ Len(CallsIn(r, ErrorStages)) >= r.reg0.error
                                     /\ InOrder(r, ErrorStages)

\* The first afterInvoke hook threw; the second one and both onSuccess hooks
\* ran and the Success was returned.
C6_Witness ==
  \E k \in Invocations :
    /\ Done(calls[k])
    /\ calls[k].firstCaught = <<"after", 1>>
    /\ SlotsIn(calls[k], {"after"}) = <<1, 2>>
    /\ SlotsIn(calls[k], {"success"}) = <<1, 2>>
    /\ isSuccess(calls[k].returned)

TimesCalled(K, S, h) ==
  Cardinality({<<k, n>> \in K \X (1..(2 * MaxHooks)) :
                 n <= Len(SlotsIn(calls[k], S)) /\ SlotsIn(calls[k], S)[n] = h})

\* C8 as stated: N calls invoke every beforeInvoke hook and every afterInvoke
\* hook exactly N times, in registration order, and the hook runs of one call
\* are never interleaved with those of another call.
C8_Original ==
  LET made == {k \in Invocations : Done(calls[k])}
  IN /\ ~interleaved
     /\ \A h \in 1..Len(state.beforeInvokeHooks) :
          TimesCalled(made, {"before"}, h) = Cardinality(made)
     /\ \A h \in 1..Len(state.afterInvokeHooks) :
          TimesCalled(made, {"after"}, h) = Cardinality(made)

\* C8, amended: N calls whose input passes validation and in which no
\* beforeInvoke hook throws invoke every beforeInvoke hook and every
\* afterInvoke hook registered before them exactly N times, in registration
\* order within each call; the hook runs of two calls are not interleaved
\* when every call is made after the calls before it have returned.
C8_HooksPerCall ==
  LET made == {k \in Invocations : Done(calls[k]) /\ Reached(calls[k])}
  IN /\ ~overlap => ~interleaved
     /\ \A k \in made : InOrder(calls[k], {"before"}) /\ InOrder(calls[k], {"after"})
     /\ \A h \in 1..Len(state.beforeInvokeHooks) :
          (\A k \in made : h <= calls[k].reg0.before)
            => TimesCalled(made, {"before"}, h) = Cardinality(made)
     /\ \A h \in 1..Len(state.afterInvokeHooks) :
          (\A k \in made : h <= calls[k].reg0.after)
            => TimesCalled(made, {"after"}, h) = Cardinality(made)

\* Two calls made one after the other have both returned through the handler.
C8_Witness ==
  /\ Cardinality(Invocations) >= 2
  /\ \A k \in Invocations : Done(calls[k]) /\ Reached(calls[k])
  /\ ~overlap
  /\ TimesCalled(Invocations, {"before"}, 2) = Cardinality(Invocations)
  /\ TimesCalled(Invocations, {"after"}, 2) = Cardinality(Invocations)

\* The Result an invocation returns by its own input, by what its own
\* beforeInvoke hooks did and by what its own handler did.
OwnResult(r) ==
  IF isFailure(parseArgs(r.input))
    THEN failure([name |-> "ValidationError", message |-> parseArgs(r.input).error.message])
    ELSE IF Len(BeforeThrows(r)) > 0
      THEN failure(BeforeError(r))
      ELSE HandlerStepResult(r)

\* The stages an invocation has to run by its own input, hooks and handler.
OwnStages(r) ==
  LET all == Iota(Len(state.onErrorHooks))
  IN IF isFailure(parseArgs(r.input))
       THEN /\ SlotsIn(r, {"valErr"}) = all
            /\ CallsIn(r, (HookStages \cup {"handler"}) \ {"valErr"}) = <<>>
       ELSE IF Len(BeforeThrows(r)) > 0
         THEN /\ SlotsIn(r, {"before"}) = Iota(BeforeThrows(r)[1].slot)
              /\ SlotsIn(r, {"beforeErr"}) = all
              /\ CallsIn(r, (HookStages \cup {"handler"}) \ {"before", "beforeErr"}) = <<>>
         ELSE /\ SlotsIn(r, {"before"}) = Iota(Len(state.beforeInvokeHooks))
              /\ Len(CallsIn(r, {"handler"})) = 1
              /\ SlotsIn(r, {"after"}) = Iota(Len(state.afterInvokeHooks))
              /\ IF isSuccess(HandlerStepResult(r))
                   THEN /\ SlotsIn(r, {"success"}) = Iota(Len(state.onSuccessHooks))
                        /\ CallsIn(r, ErrorStages) = <<>>
                   ELSE /\ SlotsIn(r, {"error", "handlerErr"}) = all
                        /\ CallsIn(r, {"success", "valErr", "beforeErr"}) = <<>>

\* C9: invocations of one procedure that are in flight together are isolated:
\* whatever fails in one of them while another is suspended, each runs all of
\* its own stages and returns the Result its own input, hooks and handler
\* determine.
C9_Isolation ==
  \A k \in Invocations :
    Done(calls[k]) => /\ calls[k].settled = "resolved"
                      /\ OwnStages(calls[k])
                      /\ calls[k].returned = OwnResult(calls[k])

\* A beforeInvoke hook threw in one invocation while another was suspended;
\* the other one went through all of its stages and returned its Success.
C9_Witness ==
  \E a, b \in Invocations :
    /\ a # b
    /\ Done(calls[a]) /\ Len(BeforeThrows(calls[a])) > 0
    /\ b \in failedWhile[a]
    /\ Done(calls[b]) /\ isSuccess(calls[b].returned)
    /\ SlotsIn(calls[b], {"before"}) = <<1, 2>>
    /\ SlotsIn(calls[b], {"after"}) = <<1, 2>>
    /\ SlotsIn(calls[b], {"success"}) = <<1, 2>>

\* The configuration of the example: 3 attempts from 100 ms, doubling, no jitter.
ExampleConfig ==
  /\ finalConfig.maxAttempts = 3
  /\ finalConfig.initialDelay = 100
  /\ finalConfig.backoffMultiplier = 2
  /\ finalConfig.maxDelay = defaultRetryConfig.maxDelay
  /\ finalConfig.jitter = FALSE
  /\ finalConfig.isRetryable = "allErrors"

\* C10: a call of the function retry returns calls fn at most maxAttempts
\* times, and exactly maxAttempts times when it ends with a throw of a
\* retryable error; it then rejects with the error of the last attempt. With
\* 3 attempts from 100 ms, doubling, without jitter, an always-throwing fn is
\* called 3 times with the delays 100 and 200 between the attempts.
C10_AtMostMaxAttempts ==
  LET rejected == rt.pc = "done" /\ rt.settled = "rejected"
  IN /\ rt.fnCalls <= finalConfig.maxAttempts
     /\ rt.fnCalls = rt.attempt
     /\ rejected /\ (rt.fnCalls = 0 \/ Retryable(finalConfig.isRetryable, Normalize(rt.thrown)))
          => rt.fnCalls = finalConfig.maxAttempts
     /\ rejected /\ rt.fnCalls > 0
          => /\ rt.value = Normalize(rt.thrown)
             /\ rt.thrown.isError => rt.value = rt.thrown
     /\ ExampleConfig
          => /\ rt.sleeps \in {<<>>, <<100>>, <<100, 200>>}
             /\ rejected => rt.fnCalls = 3 /\ rt.sleeps = <<100, 200>>

\* The call of the example has rejected after its third attempt.
C10_Witness ==
  /\ ExampleConfig
  /\ rt.pc = "done" /\ rt.settled = "rejected"
  /\ rt.fnCalls = 3
  /\ rt.sleeps = <<100, 200>>
  /\ rt.value = [isError |-> TRUE, name |-> "Error", message |-> "fail"]

\* C11: a call wrapped by retry or retryWithOutcome succeeds only with the
\* value of an attempt of fn that succeeded, and otherwise settles with
\* exactly the error the final attempt threw (retry) or the outcome it
\* returned (retryWithOutcome), unchanged.
C11_FinalFailureUnchanged ==
  /\ rt.pc = "done" /\ rt.fnCalls > 0
       => IF rt.settled = "resolved"
            THEN rt.value = ResultOf(rt.fnCalls)
            ELSE rt.value = rt.thrown
  /\ ro.pc = "done" /\ ro.fnCalls > 0 /\ ro.settled = "resolved"
       => ro.value = ro.returned

\* The call of retry has caught a throw of fn.
HasCaught ==
  \/ rt.pc \in {"onRetry", "sleep"}
  \/ rt.pc = "done" /\ rt.settled = "rejected" /\ rt.fnCalls > 0

\* C19: retry evaluates isRetryable on the error fn threw, with its name and
\* message, also when it is an Exception object and no Error instance: with
\* RetryPredicates.timeoutErrors and maxAttempts 3, a first attempt that
\* throws Exceptions.timeout(...) is retried and does not end the call.
C19_ExceptionKeepsName ==
  /\ HasCaught => /\ rt.lastError.name = rt.thrown.name
                  /\ rt.lastError.message = rt.thrown.message
  /\ (/\ finalConfig.isRetryable = "timeoutErrors"
      /\ finalConfig.maxAttempts = 3
      /\ rt.pc = "done" /\ rt.settled = "rejected" /\ rt.fnCalls = 1)
       => rt.thrown.name # "TimeoutError"

\* The last event of the call of the function retryWithOutcome returned.
WoLast == ro.events[Len(ro.events)]

\* C12: retryWithOutcome returns a Success or a Failure outcome at once, with
\* no onRetry call and no delay after the call of fn that returned it; after
\* an Exception outcome it makes another attempt exactly when one of the
\* errors of the outcome satisfies isRetryable and fewer than maxAttempts
\* attempts have been made, and onRetry then gets the first error.
C12_DecidesByTag ==
  LET again == ro.attempt > ro.returnedAt \/ ro.pc \in {"onRetry", "sleep"}
  IN /\ ro.returned.tag \in {"Success", "Failure"}
          => /\ ro.pc = "done" /\ ro.settled = "resolved"
             /\ ro.value = ro.returned
             /\ WoLast = Did("fn", ro.fnCalls)
             /\ Len(ro.retries) = Len(SelectSeq(ro.events, LAMBDA e : e.type = "onRetry"))
             /\ ro.returnedAt = 1 => ro.fnCalls = 1 /\ ro.retries = <<>> /\ ro.sleeps = <<>>
     /\ ro.returned.tag = "Exception"
          => /\ again <=> /\ SomeRetryable(ro.returned.errors)
                          /\ ro.returnedAt < finalConfig.maxAttempts
             /\ ~again => ro.pc = "done" /\ ro.value = ro.returned
     /\ ro.pc = "onRetry"
          => ro.retries[Len(ro.retries)] = <<ro.attempt, ro.returned.errors[1], ro.delay>>

\* After an Exception outcome whose second error alone is a timeout, onRetry
\* got the first error, and the second attempt returned a Failure that ended
\* the call.
C12_Witness ==
  /\ finalConfig.isRetryable = "timeoutErrors"
  /\ ro.pc = "done" /\ ro.settled = "resolved"
  /\ ro.returned.tag = "Failure" /\ ro.value = ro.returned
  /\ ro.fnCalls = 2
  /\ Len(ro.retries) = 1
  /\ ro.retries[1][1] = 1
  /\ ro.retries[1][2] = exception("DatabaseError", "down")

\* C13: when isRetryable returns false for the error of an attempt, retry
\* rethrows at once; with a predicate that is always false, fn is called
\* once, onRetry is not called, no delay is waited and the call rejects with
\* that error, for every maxAttempts.
C13_NotRetryableRethrows ==
  /\ HasCaught /\ ~Retryable(finalConfig.isRetryable, rt.lastError)
       => /\ rt.pc = "done" /\ rt.settled = "rejected"
          /\ rt.value = rt.lastError
          /\ rt.events[Len(rt.events)] = Did("fn", rt.fnCalls)
  /\ finalConfig.isRetryable = "never"
       => /\ rt.fnCalls <= 1
          /\ rt.retries = <<>> /\ rt.sleeps = <<>>
          /\ rt.events \in {<<>>, <<Did("fn", 1)>>}
          /\ HasCaught => /\ rt.fnCalls = 1
                          /\ rt.pc = "done" /\ rt.settled = "rejected"
                          /\ rt.value = Normalize(rt.thrown)

\* With a predicate that is always false and 3 attempts allowed, the call
\* has rejected with the error of its only attempt.
C13_Witness ==
  /\ finalConfig.isRetryable = "never"
  /\ finalConfig.maxAttempts = 3
  /\ finalConfig.onRetry = "returns"
  /\ rt.pc = "done" /\ rt.settled = "rejected"
  /\ rt.fnCalls = 1
  /\ rt.value = [isError |-> TRUE, name |-> "Error", message |-> "fail"]
  /\ rt.retries = <<>> /\ rt.sleeps = <<>>

RECURSIVE Backoff(_)
\* initialDelay, multiplied by backoffMultiplier once per earlier attempt.
Backoff(k) ==
  IF k = 1 THEN finalConfig.initialDelay
           ELSE Backoff(k - 1) * finalConfig.backoffMultiplier

\* The delays call r waited and passed to onRetry are those of the claim.
DelaysAsComputed(r) ==
  /\ \A k \in 1..Len(r.sleeps) :
       LET capped == IF Backoff(k) <= finalConfig.maxDelay
                       THEN Backoff(k) ELSE finalConfig.maxDelay
       IN /\ ~finalConfig.jitter => r.sleeps[k] = capped
          /\ finalConfig.jitter => 0 <= r.sleeps[k] /\ r.sleeps[k] <= capped
          /\ r.sleeps[k] <= finalConfig.maxDelay
  /\ \A k \in 1..Len(r.retries) :
       /\ r.retries[k][1] = k
       /\ k <= Len(r.sleeps) => r.retries[k][3] = r.sleeps[k]
       /\ k > Len(r.sleeps) => k = Len(r.sleeps) + 1 /\ r.retries[k][3] = r.delay
  /\ finalConfig.onRetry # NoValue => Len(r.sleeps) <= Len(r.retries)

\* C14: in retry and in retryWithOutcome the delay after failed attempt k is
\* min(initialDelay * backoffMultiplier^(k-1), maxDelay) without jitter and
\* lies between 0 and that value with jitter; it never exceeds maxDelay, and
\* onRetry and sleep get the same value.
C14_DelayFormula ==
  /\ DelaysAsComputed(rt)
  /\ DelaysAsComputed(ro)
  /\ (/\ finalConfig.initialDelay = 100 /\ finalConfig.backoffMultiplier = 3
      /\ finalConfig.maxDelay = 150 /\ ~finalConfig.jitter)
       => /\ rt.sleeps \in {<<>>, <<100>>, <<100, 150>>, <<100, 150, 150>>, <<100, 150, 150, 150>>}
          /\ ro.sleeps \in {<<>>, <<100>>, <<100, 150>>, <<100, 150, 150>>, <<100, 150, 150, 150>>}

\* From 100 ms, tripling, capped at 150 ms, without jitter: the second delay
\* was capped, and onRetry got the delays that were waited.
C14_Witness ==
  /\ finalConfig.initialDelay = 100 /\ finalConfig.backoffMultiplier = 3
  /\ finalConfig.maxDelay = 150 /\ ~finalConfig.jitter
  /\ rt.sleeps = <<100, 150>>
  /\ Len(rt.retries) = 2
  /\ rt.retries[1][3] = 100 /\ rt.retries[2][3] = 150

\* The number of calls of fn among the first i events of call r.
FnCallsUpTo(r, i) ==
  Len(SelectSeq(SubSeq(r.events, 1, i), LAMBDA e : e.type = "fn"))

\* Every event of call r follows the event the loop puts before it: a sleep
\* that ended before a later attempt, the failed attempt before its onRetry,
\* the onRetry that ended before the sleep.
BetweenAttempts(r) ==
  \A i \in 1..Len(r.events) :
    LET e == r.events[i]
        k == FnCallsUpTo(r, i)
    IN CASE e.type = "fn" ->
              /\ e.n = k
              /\ i > 1 => r.events[i - 1] = Did("sleepEnd", r.sleeps[k - 1])
         [] e.type = "onRetry" ->
              /\ finalConfig.onRetry # NoValue
              /\ r.events[i - 1] = Did("fn", e.n)
              /\ r.retries[e.n][1] = e.n
         [] e.type = "onRetryEnd" -> r.events[i - 1] = Did("onRetry", e.n)
         [] e.type = "sleep" ->
              /\ e.n = r.sleeps[k]
              /\ r.events[i - 1] = IF finalConfig.onRetry # NoValue
                                     THEN Did("onRetryEnd", k) ELSE Did("fn", k)
         [] e.type = "sleepEnd" -> r.events[i - 1] = Did("sleep", e.n)

\* When call r has settled after an attempt, that attempt is its last event,
\* and there is one onRetry call and one sleep per earlier attempt.
OneLessThanAttempts(r) ==
  r.pc = "done" /\ r.fnCalls >= 1
    => /\ r.events[Len(r.events)] = Did("fn", r.fnCalls)
       /\ Len(r.sleeps) = r.fnCalls - 1
       /\ Len(r.retries) = IF finalConfig.onRetry # NoValue THEN r.fnCalls - 1 ELSE 0
       /\ \A k \in 1..Len(r.retries) : r.retries[k][1] = k

\* C15: onRetry and the sleep occur between two attempts only: after a failed
\* attempt k that is retried, onRetry(k, error, delay) is called once and has
\* ended before the one sleep, which has ended before attempt k+1; after the
\* final attempt there is neither, so a settled call has made one onRetry
\* call and one sleep less than calls of fn, numbered 1, 2, ... in order.
C15_OnlyBetweenAttempts ==
  /\ BetweenAttempts(rt) /\ OneLessThanAttempts(rt)
  /\ BetweenAttempts(ro) /\ OneLessThanAttempts(ro)

\* Three failed attempts from 100 ms, doubling, with an onRetry callback.
C15_Witness ==
  /\ ExampleConfig /\ finalConfig.onRetry = "returns"
  /\ rt.pc = "done" /\ rt.settled = "rejected"
  /\ rt.events = <<Did("fn", 1), Did("onRetry", 1), Did("onRetryEnd", 1),
                   Did("sleep", 100), Did("sleepEnd", 100),
                   Did("fn", 2), Did("onRetry", 2), Did("onRetryEnd", 2),
                   Did("sleep", 200), Did("sleepEnd", 200), Did("fn", 3)>>

\* In call r every onRetry that ended is followed by the sleep.
SleepsAfterCallback(r) ==
  \A i \in 1..Len(r.events) :
    r.events[i].type = "onRetryEnd"
      => i < Len(r.events) /\ r.events[i + 1] = Did("sleep", r.sleeps[FnCallsUpTo(r, i)])

\* C16: a throw of the onRetry callback is swallowed: the delay is still
\* waited and the remaining attempts are made (maxAttempts calls of fn when
\* every attempt fails retryably), and the call settles with what fn
\* produced, not with the error of the callback.
C16_CallbackThrowSwallowed ==
  finalConfig.onRetry = "throws"
    => /\ SleepsAfterCallback(rt) /\ SleepsAfterCallback(ro)
       /\ rt.pc = "done" /\ rt.settled = "rejected" /\ rt.fnCalls >= 1
            => /\ rt.value = Normalize(rt.thrown)
               /\ Retryable(finalConfig.isRetryable, rt.lastError)
                    => rt.fnCalls = finalConfig.maxAttempts
       /\ rt.pc = "done" /\ rt.settled = "resolved"
            => rt.value = ResultOf(rt.fnCalls)
       /\ ro.pc = "done" /\ ro.settled = "rejected" => ro.value \in FnThrown
       /\ ro.pc = "done" /\ ro.settled = "resolved" /\ ro.fnCalls >= 1
            => /\ ro.value = ro.returned
               /\ ro.returned.tag = "Exception" /\ SomeRetryable(ro.returned.errors)
                    => ro.fnCalls = finalConfig.maxAttempts

\* The callback threw after each of two failed attempts; fn was called a
\* third time and the call rejected with the error of fn.
C16_Witness ==
  /\ finalConfig.onRetry = "throws"
  /\ finalConfig.maxAttempts = 3
  /\ rt.pc = "done" /\ rt.settled = "rejected"
  /\ rt.fnCalls = 3
  /\ Len(rt.retries) = 2 /\ Len(rt.sleeps) = 2
  /\ rt.value = [isError |-> TRUE, name |-> "Error", message |-> "fail"]

\* C17: every call of a function retry or retryWithOutcome returned settles
\* in the end, when every attempt of fn, every onRetry callback and every
\* sleep terminates: the loop neither iterates forever nor stays suspended.
C17_EventuallySettles ==
  /\ (rt.pc # "idle") ~> (rt.pc = "done" /\ rt.settled # "pending")
  /\ (ro.pc # "idle") ~> (ro.pc = "done" /\ ro.settled # "pending")

\* A call has settled after all its attempts, callbacks and sleeps.
C17_Witness ==
  /\ finalConfig.maxAttempts = MaxAttempts
  /\ finalConfig.onRetry # NoValue
  /\ ro.pc = "done" /\ ro.settled = "resolved"
  /\ ro.fnCalls = MaxAttempts
  /\ Len(ro.sleeps) = MaxAttempts - 1

\* C18: the function retryWithOutcome returned always resolves with an
\* Outcome (Success, Failure or Exception) and never rejects, also when fn
\* throws instead of returning an Outcome.
C18_AlwaysAnOutcome ==
  /\ ro.settled # "rejected"
  /\ ro.pc = "done" => ro.value.tag \in {"Success", "Failure", "Exception"}

\* C20: with jitter, every delay passed to onRetry in a call wrapped by retry
\* is greater than 0 and at most initialDelay.
C20_JitterWithinInitialDelay ==
  finalConfig.jitter
    => \A k \in 1..Len(rt.retries) :
         /\ rt.retries[k][3] > 0
         /\ rt.retries[k][3] <= finalConfig.initialDelay

\* ---- the registry's answers after its last calls -------------------------
LastOp == registryLog.ops[Len(registryLog.ops)]

PrevOp == registryLog.ops[1]

Before == registryLog.before

Called(op) == registryLog.ops # <<>> /\ LastOp.op = op

\* The last two calls were register(c, p) and then alias(c, a), a # c.
RegisteredThenAliased ==
  /\ Len(registryLog.ops) = 2
  /\ PrevOp.op = "register"
  /\ LastOp.op = "alias"
  /\ LastOp.command = PrevOp.command
  /\ LastOp.alias # LastOp.command

Members(s) == {s[i] : i \in DOMAIN s}

\* C21: after register(c, p) and then alias(c, a), for a name a other than c
\* that the registry did not know, get(a) and get(c) are p, has(a) and has(c)
\* are true, and resolve(a) is c.
C21_AliasAnswers ==
  (RegisteredThenAliased /\ ~has(Before.commands, LastOp.alias))
    => /\ ~LastOp.threw
       /\ get(commands, LastOp.alias) = PrevOp.procedure
       /\ get(commands, LastOp.command) = PrevOp.procedure
       /\ has(commands, LastOp.alias)
       /\ has(commands, LastOp.command)
       /\ resolve(aliases, LastOp.alias) = LastOp.command

C21_Witness ==
  /\ RegisteredThenAliased
  /\ ~has(Before.commands, LastOp.alias)
  /\ get(commands, LastOp.alias) = PrevOp.procedure
  /\ Len(commands) = MaxNames

\* C22: unregister(n), for a name n the registry knows, removes n and every
\* member of the alias set n had: has is false for all of them afterwards.
C22_UnregisterRemoves ==
  (Called("unregister") /\ has(Before.commands, LastOp.command))
    => /\ ~has(commands, LastOp.command)
       /\ \A m \in Members(getAliases(Before.aliases, LastOp.command)) : ~has(commands, m)

\* C23: alias membership is symmetric in every state of the registry: b is in
\* getAliases(a) exactly when a is in getAliases(b).
C23_Symmetric ==
  \A a \in Names, b \in Names :
    SetHas(getAliases(aliases, a), b) <=> SetHas(getAliases(aliases, b), a)

\* C24: a known name a in the alias set of a known name c has the procedure
\* of c: get(a) = get(c).
C24_SameProcedure ==
  \A c \in Names, a \in Names :
    (SetHas(getAliases(aliases, c), a) /\ has(commands, c) /\ has(commands, a))
      => get(commands, a) = get(commands, c)

\* C25: after register(c, p) and then alias(c, a), resolve(a) is c and
\* resolve(c), of the primary name, is undefined.
C25_ResolvePrimary ==
  (RegisteredThenAliased /\ ~has(Before.commands, LastOp.alias))
    => /\ resolve(aliases, LastOp.alias) = LastOp.command
       /\ resolve(aliases, LastOp.command) = Absent

\* The last two calls were alias(c1, a) and then alias(c2, a), both accepted,
\* for two different commands c1 and c2.
AliasedTwice ==
  /\ Len(registryLog.ops) = 2
  /\ PrevOp.op = "alias" /\ ~PrevOp.threw
  /\ LastOp.op = "alias" /\ ~LastOp.threw
  /\ PrevOp.alias = LastOp.alias
  /\ PrevOp.command # LastOp.command

\* C26: after alias(c1, a) and then alias(c2, a), get(a) is the procedure of
\* c2, the one c2 had before the call, and a is still in getAliases(c1).
C26_LaterAliasWins ==
  AliasedTwice
    => /\ get(commands, LastOp.alias) = get(Before.commands, LastOp.command)
       /\ get(commands, LastOp.alias) = get(commands, LastOp.command)
       /\ SetHas(getAliases(aliases, PrevOp.command), LastOp.alias)

C26_Witness ==
  /\ AliasedTwice
  /\ has(commands, PrevOp.command)
  /\ get(commands, PrevOp.command) # get(commands, LastOp.alias)
  /\ get(commands, LastOp.alias) = get(commands, LastOp.command)
  /\ SetHas(getAliases(aliases, PrevOp.command), LastOp.alias)

\* C27: alias(c, a) for a name c the registry does not know throws and
\* changes no answer of has, get, getAliases and getAllNames.
C27_UnknownCommandThrows ==
  (Called("alias") /\ ~has(Before.commands, LastOp.command))
    => /\ LastOp.threw
       /\ getAllNames(commands) = getAllNames(Before.commands)
       /\ \A n \in Names :
            /\ has(commands, n) = has(Before.commands, n)
            /\ get(commands, n) = get(Before.commands, n)
            /\ getAliases(aliases, n) = getAliases(Before.aliases, n)

C27_Witness ==
  /\ Called("alias")
  /\ LastOp.threw
  /\ ~has(commands, LastOp.alias)
  /\ ~has(commands, LastOp.command)
  /\ commands # <<>>

\* The answers of getCommandNames and getStats for the primary names p.
StatsFor(p) ==
  /\ Members(getCommandNames(aliases)) = p
  /\ Len(getCommandNames(aliases)) = Cardinality(p)
  /\ getStats(commands, aliases).primaryCommands = Cardinality(p)
  /\ getStats(commands, aliases).totalCommands = Cardinality(Members(getAllNames(commands)))
  /\ getStats(commands, aliases).totalAliases =
       Cardinality(Members(getAllNames(commands)) \ p)

\* C28 as stated: after register and alias calls only, the primary names are
\* the names register was called with.
C28_Original ==
  ~registryLog.unregistered => StatsFor(registryLog.registered)

\* C28: after register and alias calls only, getCommandNames returns exactly
\* the names that were unknown when register was called with them, getStats
\* counts them as primaryCommands, all known names as totalCommands, and the
\* other known names as totalAliases.
C28_FirstRegistered ==
  ~registryLog.unregistered => StatsFor(registryLog.introduced)

C28_Witness ==
  /\ ~registryLog.unregistered
  /\ registryLog.introduced # registryLog.registered
  /\ registryLog.introduced # {}
  /\ StatsFor(registryLog.introduced)
  /\ getStats(commands, aliases).totalAliases > 0

\* ---- the stream's history -------------------------------------------------
\* C29: the history never holds more events than getStats().maxHistorySize,
\* whatever calls were made and whatever non-negative size was set.
C29_HistoryBounded ==
  Len(getHistory(stream)) <= StreamStats(stream).maxHistorySize

\* The last n events of a sequence.
Latest(events, n) == SubSeq(events, Len(events) - n + 1, Len(events))

\* C30: once more events have been published than maxHistorySize m, m >= 1,
\* on a stream of that size, the history is exactly the m most recently
\* published events, in the order they were published.
C30_FifoWindow ==
  (stream.maxHistorySize >= 1 /\ Len(streamLog.window) > stream.maxHistorySize)
    => getHistory(stream) = Latest(streamLog.window, stream.maxHistorySize)

C30_Witness ==
  /\ stream.maxHistorySize = MaxHistory
  /\ Len(streamLog.window) > MaxHistory
  /\ getHistory(stream) = Latest(streamLog.window, MaxHistory)
  /\ \A i \in 1..MaxHistory : getHistory(stream)[i].type = "invalidation"
  /\ getHistory(stream)[1].timestamp < getHistory(stream)[MaxHistory].timestamp
  /\ getHistory(stream)[1].key # getHistory(stream)[2].key

\* C39: the two maps of the registry always have the same keys, so alias(c, a)
\* for a known command c finds the alias set of c and does not throw.
C39_SameKeys ==
  /\ Members(MapKeys(commands)) = Members(MapKeys(aliases))
  /\ Len(commands) = Len(aliases)
  /\ (Called("alias") /\ has(Before.commands, LastOp.command)) => ~LastOp.threw

C39_Witness ==
  /\ Called("alias")
  /\ ~LastOp.threw
  /\ registryLog.unregistered
  /\ Len(commands) = MaxNames
  /\ Members(MapKeys(commands)) = Members(MapKeys(aliases))

\* A call that did nothing but settle: no fn, no onRetry, no sleep.
NothingDone(r) ==
  /\ r.pc = "done"
  /\ r.fnCalls = 0
  /\ r.retries = <<>>
  /\ r.sleeps = <<>>
  /\ r.events = <<>>

\* C38: with maxAttempts <= 0 a call never invokes fn, onRetry or sleep; the
\* function retry returned rejects with undefined, and the function
\* retryWithOutcome returned resolves to an Exception outcome with the single
\* InternalError 'Unknown error'.
C38_NoAttempts ==
  finalConfig.maxAttempts <= 0
    => /\ rt.pc # "idle"
            => /\ NothingDone(rt)
               /\ rt.settled = "rejected"
               /\ rt.value = Undefined
       /\ ro.pc # "idle"
            => /\ NothingDone(ro)
               /\ ro.settled = "resolved"
               /\ ro.value = exceptionOutcome(<<exception("InternalError", "Unknown error")>>)

C38_Witness ==
  /\ finalConfig.maxAttempts <= 0
  /\ NothingDone(ro)
  /\ ro.settled = "resolved"
  /\ ro.value.tag = "Exception"
  /\ Len(ro.value.errors) = 1

\* ---- the hook lists an invocation iterates -------------------------------
\* Invocation k is resumed from the hook it awaits, and not by the throw of a
\* beforeInvoke hook, which ends the loop.
ResumedInLoop(k) ==
  /\ calls[k].pc = "await"
  /\ calls[k].stage \in HookStages
  /\ calls'[k] # calls[k]
  /\ ~(calls[k].stage = "before"
        /\ calls'[k].trace[Len(calls[k].trace) + 1].payload.how = "threw")

\* Invocation k now awaits hook i of the list of stage.
AwaitsHook(r, stage, i) ==
  /\ r.pc = "await"
  /\ r.stage = stage
  /\ r.i = i
  /\ r.trace[Len(r.trace)].type = "call"
  /\ r.trace[Len(r.trace)].stage = stage
  /\ r.trace[Len(r.trace)].slot = HooksOf(stage)[i]

\* C37: an invocation iterates the live hook lists: resumed after hook i of a
\* list, it runs hook i + 1 of the list as it is now, also when that hook was
\* registered while it was suspended, and it leaves the list only when the
\* list has no hook i + 1; an invocation that starts runs the first
\* beforeInvoke hook of the list as it is then.
C37_LiveHookLists ==
  [][\A k \in Invocations :
       /\ ResumedInLoop(k)
            => IF calls[k].i < Len(HooksOf(calls[k].stage))
                 THEN AwaitsHook(calls'[k], calls[k].stage, calls[k].i + 1)
                 ELSE calls'[k].stage # calls[k].stage
       /\ (calls[k].pc = "idle" /\ calls'[k].pc # "idle"
             /\ isSuccess(parseArgs(calls'[k].input)) /\ state.beforeInvokeHooks # <<>>)
            => AwaitsHook(calls'[k], "before", 1)
       /\ (calls[k].pc = "await" /\ calls[k].stage = "handler" /\ calls'[k] # calls[k]
             /\ state.afterInvokeHooks # <<>>)
            => AwaitsHook(calls'[k], "after", 1)]_vars

\* The first invocation ran a beforeInvoke hook registered while it was
\* suspended and no afterInvoke hook; the second one runs an afterInvoke hook.
C37_Witness ==
  /\ MaxCalls >= 2
  /\ calls[1].pc = "done"
  /\ calls[1].reg0.before = 1
  /\ \E e \in Members(calls[1].trace) : e.type = "call" /\ e.stage = "before" /\ e.slot = 2
  /\ \E e \in Members(calls[1].trace) : e.type = "call" /\ e.stage = "handler"
  /\ ~\E e \in Members(calls[1].trace) : e.type = "call" /\ e.stage = "after"
  /\ \E e \in Members(calls[2].trace) : e.type = "call" /\ e.stage = "after"

\* ---- the trace of a piped Outcome ------------------------------------------
\* C34: after n pipe calls, each with a description and each applied to a
\* Success, the trace of the final outcome has exactly n Steps, one per call.
C34_TraceGrows ==
  (chain.described = chain.pipes /\ chain.outcome.tag = "Success")
    => Len(chain.outcome.trace) = chain.pipes

\* The last pipe call was applied to a Success, with a description.
PipedSuccess ==
  /\ chain.pipes > 0
  /\ chain.input.tag = "Success"
  /\ Truthy(chain.description)

\* C35: the Step a pipe call with a description appends on a Success records
\* the outcome the call was given, and the description.
C35_StepRecordsInput ==
  PipedSuccess
    => /\ chain.outcome.trace # <<>>
       /\ chain.outcome.trace[Len(chain.outcome.trace)].description = chain.description
       /\ chain.outcome.trace[Len(chain.outcome.trace)].outcome = chain.input

\* C36: pipe on a Failure or an Exception returns the very outcome it was
\* given, trace included, and does not call fn.
C36_ShortCircuit ==
  (chain.pipes > 0 /\ chain.input.tag # "Success")
    => /\ chain.outcome = chain.input
       /\ chain.fnCalls = 0

C36_Witness ==
  /\ chain.pipes = MaxPipes
  /\ chain.input.tag = "Failure"
  /\ chain.input.trace # <<>>
  /\ Truthy(chain.description)
  /\ chain.outcome = chain.input
  /\ chain.fnCalls = 0

\* ---- delivery to subscribers (C31, C32, C33, C40) ---------------------------
AnEventWasPublished == streamLog.event.type # "none"

\* How many times the last dispatch called the callback of subscription id.
DeliveriesTo(id) ==
  Cardinality({i \in DOMAIN streamLog.log : streamLog.log[i] = Delivered(id)})

\* The match rule of the three kinds of subscription.
MatchRule(sub, event) ==
  CASE sub.kind = "key" -> event.type = "invalidation" /\ event.key = sub.key
    [] sub.kind = "tags" -> event.type = "invalidation" /\ Overlap(event.tags, sub.tags)
    [] OTHER -> event.type = "mutation" /\ Includes(sub.operations, event.operation)

\* C31: when an event is published, the callback of every subscription that
\* was active is called exactly once if its match rule applies (exact key,
\* tag overlap, operation membership) and not at all otherwise.
C31_MatchRule ==
  AnEventWasPublished =>
    \A i \in DOMAIN streamLog.before :
      DeliveriesTo(streamLog.before[i].id)
        = IF MatchRule(streamLog.before[i], streamLog.event) THEN 1 ELSE 0

\* The subscriptions whose callback threw in the last dispatch.
CallbackThrown(sub) == sub.callback = "throws" /\ DeliveriesTo(sub.id) > 0

ACallbackThrew ==
  /\ AnEventWasPublished
  /\ \E i \in DOMAIN streamLog.before : CallbackThrown(streamLog.before[i])

\* The same subscriptions with callbacks that return where these throw.
Quiet(subs) ==
  [i \in DOMAIN subs |->
     IF subs[i].callback = "throws" THEN [subs[i] EXCEPT !.callback = "returns"] ELSE subs[i]]

\* The dispatch of the last event had no callback thrown.
QuietLog ==
  notifySubscribers([stream |-> [stream EXCEPT !.subscriptions = Quiet(streamLog.before)],
                     log |-> <<>>, threw |-> FALSE],
                    Quiet(streamLog.before), streamLog.event).log

CreatedInDispatch ==
  SelectSeq(stream.subscriptions,
            LAMBDA sub : \A i \in DOMAIN streamLog.before : streamLog.before[i].id # sub.id)

\* The subscriptions a callback of the last dispatch unsubscribed.
UnsubscribedInDispatch ==
  SelectSeq(streamLog.before, LAMBDA sub : Includes(streamLog.log, Unsubscribed(sub.id)))

\* The stream calls the callback of sub for the event.
IsFor(sub, event) == shouldNotify(sub, event) /\ WrapperPasses(sub, event)

\* C40: an event goes to the subscriptions that were active when it was
\* published: a subscription a callback creates during the dispatch is not
\* called for it, and one an earlier callback unsubscribes during the
\* dispatch is still called for it once.
C40_SnapshotDispatch ==
  AnEventWasPublished =>
    /\ \A i \in DOMAIN CreatedInDispatch : DeliveriesTo(CreatedInDispatch[i].id) = 0
    /\ \A i \in DOMAIN UnsubscribedInDispatch :
         IsFor(UnsubscribedInDispatch[i], streamLog.event)
           => DeliveriesTo(UnsubscribedInDispatch[i].id) = 1

\* The first callback unsubscribed the second subscription, which was called
\* all the same and created a third one for the key of the event.
C40_Witness ==
  /\ AnEventWasPublished
  /\ Len(streamLog.before) = 2
  /\ streamLog.log = <<Delivered(streamLog.before[1].id),
                       Unsubscribed(streamLog.before[2].id),
                       Delivered(streamLog.before[2].id)>>
  /\ Len(UnsubscribedInDispatch) = 1
  /\ Len(CreatedInDispatch) = 1
  /\ IsFor(CreatedInDispatch[1], streamLog.event)

\* The callback of subscription id was called after its unsubscribe closure.
CalledAfterUnsubscribe(id) ==
  \E i, j \in DOMAIN streamLog.log :
    /\ i < j
    /\ streamLog.log[i] = Unsubscribed(id)
    /\ streamLog.log[j] = Delivered(id)

\* C33: once the unsubscribe closure of a subscription has been called, the
\* subscription is gone from the stream and its callback is never called
\* again: not by a later event, and not by the event being dispatched.
C33_UnsubscribeFinal ==
  \A id \in streamLog.closed :
    /\ \A i \in DOMAIN stream.subscriptions : stream.subscriptions[i].id # id
    /\ ~CalledAfterUnsubscribe(id)
    /\ DeliveriesTo(id) > 0 => Includes(streamLog.log, Unsubscribed(id))

====
